---------------------------- MODULE Spec2Model ----------------------------
(***************************************************************************)
(* Ticket routing pipeline of freedom_fire: ProcessTicketUseCase.execute   *)
(* and BatchProcessUseCase.execute running against the SQL repositories    *)
(* (one database transaction per HTTP request, flush per repository call,  *)
(* commit in the route), together with the pure domain policies.           *)
(***************************************************************************)
EXTENDS Integers, Sequences, FiniteSets, TLC

(***************************************************************************)
(* Bounds of the model.                                                    *)
(***************************************************************************)
NumWorkers == 2
NumTickets == 2
MaxCoord == 1

Workers == 1..NumWorkers
TicketIds == 1..NumTickets
Points == 0..MaxCoord

(***************************************************************************)
(* Domain enums (value_objects/enums.py).  None stands for Python's None.  *)
(***************************************************************************)
None == "None"
NoLoc == -1
NoRow == -1
NoDistance == -1
NoId == 0

SPAM == "Spam"
DATA_CHANGE == "DataChange"
CONSULTATION == "Consultation"
TicketType == {"Complaint", DATA_CHANGE, CONSULTATION, "Claim", "AppMalfunction", "Fraud", SPAM}
Language == {"KZ", "ENG", "RU"}
Segment == {"Mass", "VIP", "Priority"}
SPECIALIST == "Specialist"
SENIOR_SPECIALIST == "SeniorSpecialist"
CHIEF_SPECIALIST == "ChiefSpecialist"
Position == {SPECIALIST, SENIOR_SPECIALIST, CHIEF_SPECIALIST}
GeoStatus == {"pending", "resolved", "failed", "abroad"}

ASTANA_HUB == "Astana"
ALMATY_HUB == "Almaty"

(***************************************************************************)
(* Sequence helpers.                                                       *)
(***************************************************************************)
Range(s) == {s[i] : i \in DOMAIN s}

RECURSIVE SeqFilter(_, _)
SeqFilter(s, keep) ==
    IF Len(s) = 0 THEN << >>
    ELSE IF Head(s).id \in keep THEN <<Head(s)>> \o SeqFilter(Tail(s), keep)
         ELSE SeqFilter(Tail(s), keep)

Take2(s) == IF Len(s) <= 2 THEN s ELSE SubSeq(s, 1, 2)

\* Faulty variant: a sort key without the id, ties left in the order they come in
KeyLessByLoad(a, b) == a.current_load < b.current_load

\* key=lambda m: (m.current_load, m.id), compared as Python compares tuples
KeyLess(a, b) ==
    \/ a.current_load < b.current_load
    \/ a.current_load = b.current_load /\ a.id < b.id

RECURSIVE InsertSorted(_, _)
InsertSorted(x, s) ==
    IF s = << >> THEN <<x>>
    ELSE IF KeyLess(x, Head(s)) THEN <<x>> \o s
         ELSE <<Head(s)>> \o InsertSorted(x, Tail(s))

\* sorted(candidates, key=lambda m: (m.current_load, m.id)); stable
RECURSIVE SortedByLoadId(_)
SortedByLoadId(s) ==
    IF s = << >> THEN << >>
    ELSE InsertSorted(s[Len(s)], SortedByLoadId(SubSeq(s, 1, Len(s) - 1)))

(***************************************************************************)
(* domain/policies/required_skills.py                                      *)
(***************************************************************************)
\* Faulty variant: the language skill replaces the segment skill
required_skills_not_additive(segment, ticket_type, language) ==
    [required_skills |->
        IF language = "KZ" THEN {"KZ"}
        ELSE IF language = "ENG" THEN {"ENG"}
        ELSE IF segment \in {"VIP", "Priority"} THEN {"VIP"} ELSE {},
     min_position |->
        IF ticket_type = DATA_CHANGE THEN CHIEF_SPECIALIST ELSE None]

determine_required_skills(segment, ticket_type, language) ==
    [required_skills |->
        (IF segment \in {"VIP", "Priority"} THEN {"VIP"} ELSE {})
        \cup (IF language = "KZ" THEN {"KZ"}
              ELSE IF language = "ENG" THEN {"ENG"} ELSE {}),
     min_position |->
        IF ticket_type = DATA_CHANGE THEN CHIEF_SPECIALIST ELSE None]

\* Faulty variant: a filter that looks at the rank alone
satisfies_rank_only(manager_skills, manager_position, requirement) ==
    requirement.min_position = CHIEF_SPECIALIST
        => manager_position = CHIEF_SPECIALIST

manager_satisfies(manager_skills, manager_position, requirement) ==
    /\ requirement.required_skills \subseteq manager_skills
    /\ (requirement.min_position = CHIEF_SPECIALIST
            => manager_position = CHIEF_SPECIALIST)

(***************************************************************************)
(* domain/policies/round_robin.py                                          *)
(* pick_next returns the chosen candidate; the caller discards counter+1.  *)
(***************************************************************************)
\* Faulty variant: the index is the counter halved, not the counter
pick_next_slow(candidates, counter) ==
    LET sorted_candidates == SortedByLoadId(candidates)
        index == (counter \div 2) % Len(sorted_candidates)
    IN  sorted_candidates[index + 1]

\* Faulty variant: the index is taken in the list as it was passed
pick_next_unsorted(candidates, counter) == candidates[(counter % Len(candidates)) + 1]

pick_next(candidates, counter) ==
    LET sorted_candidates == SortedByLoadId(candidates)
        index == counter % Len(sorted_candidates)
    IN  sorted_candidates[index + 1]

(***************************************************************************)
(* domain/value_objects/geo_point.py and domain/policies/office_selection  *)
(* Coordinates are points of a line; haversine_km is the distance on it    *)
(* (zero on equal points, symmetric), already a multiple of 0.01.          *)
(***************************************************************************)
haversine_km(p, q) == IF p >= q THEN p - q ELSE q - p

\* min(candidates, key=lambda x: x[1]) : the first minimal element
RECURSIVE MinByDistance(_, _)
MinByDistance(cands, loc) ==
    IF Len(cands) = 1 THEN cands[1]
    ELSE LET rest == MinByDistance(Tail(cands), loc)
         IN  IF haversine_km(loc, Head(cands).location)
                    <= haversine_km(loc, rest.location)
             THEN Head(cands) ELSE rest

Located(offs) == SeqFilter(offs, {o.id : o \in {x \in Range(offs) : x.location # NoLoc}})

\* Result "error" stands for the ValueError raised by the policy.
\* Faulty variant: a selection among all offices, with coordinates or not
select_nearest_unfiltered(client_location, offs) ==
    IF offs = << >>
    THEN [error |-> "No offices with known locations available"]
    ELSE LET best == MinByDistance(offs, client_location)
         IN  [error |-> None, office |-> best,
              distance_km |-> haversine_km(client_location, best.location),
              fallback_used |-> FALSE]

select_nearest_office(client_location, offs) ==
    LET candidates == Located(offs)
    IN  IF candidates = << >>
        THEN [error |-> "No offices with known locations available"]
        ELSE LET best == MinByDistance(candidates, client_location)
             IN  [error |-> None, office |-> best,
                  distance_km |-> haversine_km(client_location, best.location),
                  fallback_used |-> FALSE]

\* hub in hub_map / hub_map[hub]: the last office of the list whose name
\* contains the hub name (a model name is the hub name or another city)
HasNamed(offs, hub) == \E i \in DOMAIN offs : offs[i].name = hub

LastNamed(offs, hub) ==
    LET idx == {i \in DOMAIN offs : offs[i].name = hub}
    IN  offs[CHOOSE i \in idx : \A j \in idx : j <= i]

RECURSIVE InsertById(_, _)
InsertById(x, s) ==
    IF s = << >> THEN <<x>>
    ELSE IF x.id < Head(s).id THEN <<x>> \o s
         ELSE <<Head(s)>> \o InsertById(x, Tail(s))

RECURSIVE SortedById(_)
SortedById(s) ==
    IF s = << >> THEN << >>
    ELSE InsertById(s[Len(s)], SortedById(SubSeq(s, 1, Len(s) - 1)))

\* Faulty variant: the parity of the counter after the advance
select_fallback_by_new_value(counter, offs) ==
    IF offs = << >> THEN [error |-> "No offices available for fallback"]
    ELSE LET chosen == IF HasNamed(offs, ASTANA_HUB) /\ HasNamed(offs, ALMATY_HUB)
                       THEN (IF (counter + 1) % 2 = 0
                             THEN LastNamed(offs, ASTANA_HUB)
                             ELSE LastNamed(offs, ALMATY_HUB))
                       ELSE SortedById(offs)[(counter % Len(offs)) + 1]
         IN  [error |-> None, office |-> chosen, distance_km |-> NoDistance,
              fallback_used |-> TRUE]

\* Faulty variant: without the hubs, the list is indexed as it comes
select_fallback_unsorted(counter, offs) ==
    IF offs = << >> THEN [error |-> "No offices available for fallback"]
    ELSE LET chosen == IF HasNamed(offs, ASTANA_HUB) /\ HasNamed(offs, ALMATY_HUB)
                       THEN (IF counter % 2 = 0
                             THEN LastNamed(offs, ASTANA_HUB)
                             ELSE LastNamed(offs, ALMATY_HUB))
                       ELSE offs[(counter % Len(offs)) + 1]
         IN  [error |-> None, office |-> chosen, distance_km |-> NoDistance,
              fallback_used |-> TRUE]

select_fallback_office(counter, offs) ==
    IF offs = << >> THEN [error |-> "No offices available for fallback"]
    ELSE LET chosen == IF HasNamed(offs, ASTANA_HUB) /\ HasNamed(offs, ALMATY_HUB)
                       THEN (IF counter % 2 = 0
                             THEN LastNamed(offs, ASTANA_HUB)
                             ELSE LastNamed(offs, ALMATY_HUB))
                       ELSE SortedById(offs)[(counter % Len(offs)) + 1]
         IN  [error |-> None, office |-> chosen, distance_km |-> NoDistance,
              fallback_used |-> TRUE]


(***************************************************************************)
(* rr_key (process_ticket.py): one queue per office, VIP flag, language,   *)
(* type and chief flag; a separate key sequences the hub fallback.         *)
(***************************************************************************)
\* Faulty variant: a key that leaves the language out
RRKeyWithoutLanguage(office_id, requirement, analysis) ==
    "office-" \o ToString(office_id)
        \o "|vip-" \o (IF "VIP" \in requirement.required_skills THEN "1" ELSE "0")
        \o "|type-" \o analysis.ticket_type
        \o "|chief-" \o (IF requirement.min_position = CHIEF_SPECIALIST THEN "1" ELSE "0")

RRKey(office_id, requirement, analysis) ==
    "office-" \o ToString(office_id)
        \o "|vip-" \o (IF "VIP" \in requirement.required_skills THEN "1" ELSE "0")
        \o "|lang-" \o analysis.language
        \o "|type-" \o analysis.ticket_type
        \o "|chief-" \o (IF requirement.min_position = CHIEF_SPECIALIST THEN "1" ELSE "0")

FallbackKey == "office-fallback-50-50"

(***************************************************************************)
(* domain/entities/ticket.py.  A ticket carries its country ("none", the   *)
(* domestic one or a foreign one), whether build_address_string() yields   *)
(* an address, and whether its city or region names a domestic place.      *)
(***************************************************************************)
is_address_known(ticket) == ticket.client_location # NoLoc

\* Faulty variant: a country test that no stored spelling passes
never_domestic(ticket) == FALSE

is_domestic(ticket) ==
    IF ticket.country # "none" THEN ticket.country = "domestic"
    ELSE ticket.kz_place

(***************************************************************************)
(* State.  The committed database tables, and for every request worker    *)
(* its position in the route, the tickets still to process, the locals of  *)
(* execute, its open transaction and the results it has collected.         *)
(***************************************************************************)
VARIABLES offices, tickets, managers, analytics, assignments, rr, cache,
          pc, queue, frame, tx, results

vars == <<offices, tickets, managers, analytics, assignments, rr, cache,
          pc, queue, frame, tx, results>>

\* What the requests share: the committed tables and the geocoder's cache
db == <<offices, tickets, managers, analytics, assignments, rr, cache>>

ManagerIds == DOMAIN managers

EmptyFn == [x \in {} |-> 0]

NoSelection == [office_id |-> NoId, distance_km |-> NoDistance, fallback_used |-> FALSE]

EmptyFrame ==
    [analysis |-> [ticket_type |-> None, language |-> None],
     ticket |-> [id |-> NoId],
     office_sel |-> NoSelection,
     top2 |-> << >>,
     rr_key |-> FallbackKey,
     m |-> NoRow,
     chosen |-> NoId,
     geocoded |-> FALSE]

\* An open transaction: rows and updates flushed but not yet committed, and
\* the row locks it holds.
EmptyTx(status) ==
    [status |-> status,
     analytics |-> << >>,
     assignments |-> << >>,
     rr |-> EmptyFn,
     loads |-> EmptyFn,
     tickets |-> EmptyFn,
     rrLocks |-> {},
     mgrLocks |-> {}]

\* What a statement of worker w sees (READ COMMITTED): committed rows and
\* its own flushed ones.
VisibleRR(w) == tx[w].rr @@ rr

\* Faulty variant: the UPDATE does not see the increments the transaction
\* has already flushed.
NoPendingLoad(w, id) == 0

PendingLoad(w, id) == IF id \in DOMAIN tx[w].loads THEN tx[w].loads[id] ELSE 0

VisibleManager(w, id) ==
    [managers[id] EXCEPT !.current_load = @ + PendingLoad(w, id)]

HasAnalysis(rows, t) == \E i \in DOMAIN rows : rows[i].ticket_id = t

HasAssignment(rows, t) == \E i \in DOMAIN rows : rows[i].ticket_id = t

(***************************************************************************)
(* ProcessingResult                                                        *)
(***************************************************************************)
ProcessingResult(ticket_id, manager, office, distance, fallback, error) ==
    [ticket_id |-> ticket_id, assigned_manager |-> manager,
     assigned_office |-> office, distance_km |-> distance,
     fallback_used |-> fallback, error |-> error]

ErrorResult(ticket_id, error) ==
    ProcessingResult(ticket_id, NoId, NoId, NoDistance, FALSE, error)


(***************************************************************************)
(* Reads of the repositories inside the transaction of worker w.           *)
(***************************************************************************)
\* SqlManagerRepository.get_all: ORDER BY id
get_all_managers(w) == [i \in DOMAIN managers |-> VisibleManager(w, i)]

\* SqlManagerRepository.get_by_office: no ORDER BY, the rows come in an
\* order the database chooses; order is one such order of the office's ids.
RowOrders(ids) ==
    {o \in [1..Cardinality(ids) -> ids] : \A i, j \in DOMAIN o : o[i] = o[j] => i = j}

OfficeManagerIds(office_id) == {i \in DOMAIN managers : managers[i].office_id = office_id}

get_by_office(w, order) == [i \in DOMAIN order |-> VisibleManager(w, order[i])]

\* SqlTicketRepository.get_unprocessed: tickets without an Analysis row,
\* ORDER BY id
RECURSIVE UnprocessedFrom(_)
UnprocessedFrom(t) ==
    IF t > Len(tickets) THEN << >>
    ELSE IF HasAnalysis(analytics, t) THEN UnprocessedFrom(t + 1)
         ELSE <<tickets[t]>> \o UnprocessedFrom(t + 1)

get_unprocessed == UnprocessedFrom(1)

(***************************************************************************)
(* Step 4 and 5 of execute: the eligible managers and the top 2 by load    *)
(***************************************************************************)
Satisfying(mgrs, requirement) ==
    SeqFilter(mgrs, {m.id : m \in {x \in Range(mgrs) :
        manager_satisfies(x.skills, x.position, requirement)}})

\* Faulty variant: a last tier that forgets the rank
AnyRank(mgrs) == mgrs

Chiefs(mgrs) ==
    SeqFilter(mgrs, {m.id : m \in {x \in Range(mgrs) : x.position = CHIEF_SPECIALIST}})

\* Faulty variant: a filter that never widens beyond the selected office
EligibleInOffice(office_managers, all_managers, requirement) ==
    Satisfying(office_managers, requirement)

\* Faulty variant: a filter that drops the skills before it widens to the
\* other offices
EligibleSkillsFirst(office_managers, all_managers, requirement) ==
    IF Satisfying(office_managers, requirement) # << >>
    THEN Satisfying(office_managers, requirement)
    ELSE IF requirement.min_position = CHIEF_SPECIALIST
         THEN Chiefs(all_managers)
         ELSE all_managers

Eligible(office_managers, all_managers, requirement) ==
    IF Satisfying(office_managers, requirement) # << >>
    THEN Satisfying(office_managers, requirement)
    ELSE IF Satisfying(all_managers, requirement) # << >>
         THEN Satisfying(all_managers, requirement)
         ELSE IF requirement.min_position = CHIEF_SPECIALIST
              THEN Chiefs(all_managers)
              ELSE all_managers

\* Faulty variant: a shortlist cut from the eligible managers as they come
Top2Unsorted(eligible) == Take2(eligible)

Top2(eligible) == Take2(SortedByLoadId(eligible))

(***************************************************************************)
(* The end of one execute call inside the loop of BatchProcessUseCase (a   *)
(* single-ticket request is a loop of one): the result is collected and    *)
(* the next ticket starts, or the route goes on to session.commit().       *)
(***************************************************************************)
StartFrame(q) ==
    IF q = << >> THEN EmptyFrame ELSE [EmptyFrame EXCEPT !.ticket = Head(q)]

StartPc(q) == IF q = << >> THEN "commit" ELSE "analyze"

EndExecute(w, result, newtx) ==
    /\ results' = [results EXCEPT ![w] = Append(@, result)]
    /\ queue' = [queue EXCEPT ![w] = Tail(@)]
    /\ frame' = [frame EXCEPT ![w] = StartFrame(Tail(queue[w]))]
    /\ pc' = [pc EXCEPT ![w] = StartPc(Tail(queue[w]))]
    /\ tx' = [tx EXCEPT ![w] = newtx]
    /\ UNCHANGED db

\* Faulty variant: a failed statement that leaves the transaction as it was
NoRollback(w) == tx[w]

\* A failed statement ends the transaction of worker w: the session rolls
\* back on a failed flush and PostgreSQL aborts the transaction on a failed
\* statement; execute catches the exception and goes on with a session in
\* which nothing flushed so far survives and every later flush raises.
Rollback(w) == EmptyTx("failed")

\* Faulty variant: the exception is swallowed without a result for the ticket
RaiseWithoutResult(w, error, newtx) ==
    /\ queue' = [queue EXCEPT ![w] = Tail(@)]
    /\ frame' = [frame EXCEPT ![w] = StartFrame(Tail(queue[w]))]
    /\ pc' = [pc EXCEPT ![w] = StartPc(Tail(queue[w]))]
    /\ tx' = [tx EXCEPT ![w] = newtx]
    /\ UNCHANGED <<db, results>>

\* except Exception as e: return ProcessingResult(..., error=str(e))
Raise(w, error, newtx) ==
    EndExecute(w, ErrorResult(frame[w].ticket.id, error), newtx)

Goto(w, label, newframe, newtx) ==
    /\ pc' = [pc EXCEPT ![w] = label]
    /\ frame' = [frame EXCEPT ![w] = newframe]
    /\ tx' = [tx EXCEPT ![w] = newtx]
    /\ UNCHANGED <<db, queue, results>>

(***************************************************************************)
(* Unique indexes and row locks of PostgreSQL.                             *)
(***************************************************************************)
\* An INSERT waits while another open transaction holds an uncommitted row
\* with the same unique key.
OthersPending(w, rowsOf(_), t) ==
    \E o \in Workers \ {w} : \E i \in DOMAIN rowsOf(o) : rowsOf(o)[i].ticket_id = t

PendingAnalytics(o) == tx[o].analytics
PendingAssignments(o) == tx[o].assignments

RRLockedByOther(w, key) == \E o \in Workers \ {w} : key \in tx[o].rrLocks

MgrLockedByOther(w, id) == \E o \in Workers \ {w} : id \in tx[o].mgrLocks


(***************************************************************************)
(* Inputs: what the classifier and the geocoder may answer.                *)
(***************************************************************************)
LLMAnswers ==
    {[ticket_type |-> SPAM, language |-> "RU"],
     [ticket_type |-> CONSULTATION, language |-> "RU"],
     [ticket_type |-> CONSULTATION, language |-> "KZ"],
     [ticket_type |-> DATA_CHANGE, language |-> "ENG"]}

GeocoderAnswers == Points \cup {NoLoc}

(***************************************************************************)
(* Routes (routes_processing.py): a request opens a session and hands the  *)
(* use case one ticket (process_single) or every unprocessed ticket        *)
(* (process_all).                                                          *)
(***************************************************************************)
StartRequest(w, q) ==
    /\ pc[w] = "idle"
    /\ queue' = [queue EXCEPT ![w] = q]
    /\ frame' = [frame EXCEPT ![w] = StartFrame(q)]
    /\ pc' = [pc EXCEPT ![w] = StartPc(q)]
    /\ tx' = [tx EXCEPT ![w] = EmptyTx("active")]
    /\ results' = [results EXCEPT ![w] = << >>]
    /\ UNCHANGED db

ProcessSingle(w, t) == StartRequest(w, <<tickets[t]>>)

ProcessAll(w) == StartRequest(w, get_unprocessed)

(***************************************************************************)
(* Step 1: LLM analysis, SqlAnalyticsRepository.save                       *)
(***************************************************************************)
\* Faulty variant: ticket_analytics without the unique index on ticket_id
AnalyticsNotUnique(w, t) == FALSE

\* ticket_analytics.ticket_id is unique
AnalyticsUniqueViolation(w, t) ==
    HasAnalysis(analytics, t) \/ HasAnalysis(tx[w].analytics, t)

\* Faulty variant: a pipeline without the spam branch
NeverSpam(analysis) == FALSE

\* if analysis.ticket_type == TicketType.SPAM
IsSpam(analysis) == analysis.ticket_type = SPAM

Analyze(w) ==
    /\ pc[w] = "analyze"
    /\ \E ans \in LLMAnswers :
        LET t == frame[w].ticket.id
            newtx == [tx[w] EXCEPT !.analytics = Append(@,
                        [ticket_id |-> t, ticket_type |-> ans.ticket_type,
                         language |-> ans.language])]
        IN  IF tx[w].status = "failed"
            THEN Raise(w, "PendingRollbackError", Rollback(w))
            ELSE IF AnalyticsUniqueViolation(w, t)
                 THEN Raise(w, "IntegrityError", Rollback(w))
                 ELSE /\ ~OthersPending(w, PendingAnalytics, t)
                      /\ IF IsSpam(ans)
                         THEN EndExecute(w,
                                ProcessingResult(t, NoId, NoId, NoDistance, FALSE, None),
                                newtx)
                         ELSE Goto(w, "geocode",
                                   [frame[w] EXCEPT !.analysis = ans], newtx)

(***************************************************************************)
(* Step 2: geocode, SqlTicketRepository.update                             *)
(***************************************************************************)
Geocode(w) ==
    /\ pc[w] = "geocode"
    /\ LET ticket == frame[w].ticket
       IN  IF is_address_known(ticket)
           THEN Goto(w, "office", frame[w], tx[w])
           ELSE \E point \in GeocoderAnswers :
                LET called == ticket.has_address /\ is_domestic(ticket)
                    loc == IF called THEN point ELSE NoLoc
                    status == IF called
                              THEN (IF point # NoLoc THEN "resolved" ELSE "failed")
                              ELSE IF ~is_domestic(ticket) /\ ticket.country # "none"
                                   THEN "abroad" ELSE "failed"
                    updated == [ticket EXCEPT !.client_location = loc,
                                              !.geo_status = status]
                IN  Goto(w, "office",
                         [frame[w] EXCEPT !.ticket = updated, !.geocoded = called],
                         [tx[w] EXCEPT !.tickets =
                            (ticket.id :> [client_location |-> loc, geo_status |-> status]) @@ @])

(***************************************************************************)
(* SqlRoundRobinRepository.increment_counter: SELECT ... FOR UPDATE, then  *)
(* the flush that inserts the row or updates it.                           *)
(***************************************************************************)
\* SELECT ... WHERE rr_key = :key FOR UPDATE waits while another open
\* transaction holds the lock of the row; a row another transaction has
\* inserted and not committed is not seen at all.
SelectWaits(w, key) == key \in DOMAIN VisibleRR(w) /\ RRLockedByOther(w, key)

\* m = result.scalar_one_or_none(): the counter of the row, or no row
SelectedRow(w, key) ==
    IF key \in DOMAIN VisibleRR(w) THEN VisibleRR(w)[key] ELSE NoRow

SelectedTx(w, key) ==
    IF key \in DOMAIN VisibleRR(w)
    THEN [tx[w] EXCEPT !.rrLocks = @ \cup {key}]
    ELSE tx[w]

CounterSelect(w, key, label) ==
    \E fault \in BOOLEAN :
        IF fault THEN Raise(w, "counter store unavailable", Rollback(w))
        ELSE /\ ~SelectWaits(w, key)
             /\ Goto(w, label,
                     [frame[w] EXCEPT !.m = SelectedRow(w, key), !.rr_key = key],
                     SelectedTx(w, key))

\* round_robin_state.rr_key is unique
CounterInsertViolation(key) == key \in DOMAIN rr

CounterInsertWaits(w, key) == \E o \in Workers \ {w} : key \in DOMAIN tx[o].rr

\* the value increment_counter returns
OldValue(m) == IF m = NoRow THEN 0 ELSE m

\* the value the row holds after the flush
\* Faulty variant: the update branch writes what the insert branch writes
NewValueAlwaysOne(m) == 1

NewValue(m) == IF m = NoRow THEN 1 ELSE m + 1

Flushed(w) ==
    [tx[w] EXCEPT !.rr = (frame[w].rr_key :> NewValue(frame[w].m)) @@ @,
                  !.rrLocks = @ \cup {frame[w].rr_key}]

CounterFlushFails(w) == frame[w].m = NoRow /\ CounterInsertViolation(frame[w].rr_key)

CounterFlushWaits(w) == frame[w].m = NoRow /\ CounterInsertWaits(w, frame[w].rr_key)


(***************************************************************************)
(* Step 3: select office                                                   *)
(***************************************************************************)
\* Faulty variant: a selection that reports every office as a nearest one
SelectionAsNearest(sel) ==
    [office_id |-> sel.office.id, distance_km |-> sel.distance_km,
     fallback_used |-> FALSE]

Selection(sel) ==
    [office_id |-> sel.office.id, distance_km |-> sel.distance_km,
     fallback_used |-> sel.fallback_used]

SelectOffice(w) ==
    /\ pc[w] = "office"
    /\ IF is_address_known(frame[w].ticket)
       THEN LET sel == select_nearest_office(frame[w].ticket.client_location, offices)
            IN  IF sel.error # None THEN Raise(w, sel.error, tx[w])
                ELSE Goto(w, "filter",
                          [frame[w] EXCEPT !.office_sel = Selection(sel)], tx[w])
       ELSE CounterSelect(w, FallbackKey, "fallback_flush")

FallbackFlush(w) ==
    /\ pc[w] = "fallback_flush"
    /\ IF CounterFlushFails(w) THEN Raise(w, "IntegrityError", Rollback(w))
       ELSE /\ ~CounterFlushWaits(w)
            /\ LET sel == select_fallback_office(OldValue(frame[w].m), offices)
               IN  IF sel.error # None THEN Raise(w, sel.error, Flushed(w))
                   ELSE Goto(w, "filter",
                             [frame[w] EXCEPT !.office_sel = Selection(sel)],
                             Flushed(w))

(***************************************************************************)
(* Step 4 and 5: filter managers, top 2, rr_key                            *)
(***************************************************************************)
Requirement(f) ==
    determine_required_skills(f.ticket.segment, f.analysis.ticket_type,
                              f.analysis.language)

FilterManagers(w) ==
    /\ pc[w] = "filter"
    /\ \E order \in RowOrders(OfficeManagerIds(frame[w].office_sel.office_id)) :
        LET requirement == Requirement(frame[w])
            eligible == Eligible(get_by_office(w, order), get_all_managers(w),
                                 requirement)
        IN  IF Len(eligible) = 0
            THEN EndExecute(w,
                    ProcessingResult(frame[w].ticket.id, NoId, NoId, NoDistance,
                                     frame[w].office_sel.fallback_used,
                                     "No eligible managers found"),
                    tx[w])
            ELSE Goto(w, "rr_select",
                      [frame[w] EXCEPT
                          !.top2 = Top2(eligible),
                          !.rr_key = RRKey(frame[w].office_sel.office_id,
                                           requirement, frame[w].analysis)],
                      tx[w])

(***************************************************************************)
(* Step 5 and 6: counter advance, pick, persist                            *)
(***************************************************************************)
RRSelect(w) ==
    /\ pc[w] = "rr_select"
    /\ CounterSelect(w, frame[w].rr_key, "rr_flush")

RRFlush(w) ==
    /\ pc[w] = "rr_flush"
    /\ IF CounterFlushFails(w) THEN Raise(w, "IntegrityError", Rollback(w))
       ELSE /\ ~CounterFlushWaits(w)
            /\ Goto(w, "save",
                    [frame[w] EXCEPT
                        !.chosen = pick_next(frame[w].top2, OldValue(frame[w].m)).id],
                    Flushed(w))

\* assignments.ticket_id is unique
AssignmentUniqueViolation(w, t) ==
    HasAssignment(assignments, t) \/ HasAssignment(tx[w].assignments, t)

NewAssignment(f) ==
    [ticket_id |-> f.ticket.id, manager_id |-> f.chosen,
     office_id |-> f.office_sel.office_id,
     distance_km |-> f.office_sel.distance_km,
     fallback_used |-> f.office_sel.fallback_used]

SaveAssignment(w) ==
    /\ pc[w] = "save"
    /\ \E fault \in BOOLEAN :
        IF fault THEN Raise(w, "assignment save failed", Rollback(w))
        ELSE IF AssignmentUniqueViolation(w, frame[w].ticket.id)
             THEN Raise(w, "IntegrityError", Rollback(w))
             ELSE /\ ~OthersPending(w, PendingAssignments, frame[w].ticket.id)
                  /\ Goto(w, "load", frame[w],
                          [tx[w] EXCEPT !.assignments = Append(@, NewAssignment(frame[w]))])

\* UPDATE managers SET current_load = current_load + 1 WHERE id = :id
IncrementLoad(w) ==
    /\ pc[w] = "load"
    /\ \E fault \in BOOLEAN :
        IF fault THEN Raise(w, "load increment failed", Rollback(w))
        ELSE /\ ~MgrLockedByOther(w, frame[w].chosen)
             /\ EndExecute(w,
                    ProcessingResult(frame[w].ticket.id, frame[w].chosen,
                                     frame[w].office_sel.office_id,
                                     frame[w].office_sel.distance_km,
                                     frame[w].office_sel.fallback_used, None),
                    [tx[w] EXCEPT
                        !.loads = (frame[w].chosen :> PendingLoad(w, frame[w].chosen) + 1) @@ @,
                        !.mgrLocks = @ \cup {frame[w].chosen}])

(***************************************************************************)
(* session.commit() in the route, and cancellation of the request          *)
(***************************************************************************)
Applied(w) ==
    [tickets |-> [t \in DOMAIN tickets |->
                    IF t \in DOMAIN tx[w].tickets
                    THEN [tickets[t] EXCEPT
                            !.client_location = tx[w].tickets[t].client_location,
                            !.geo_status = tx[w].tickets[t].geo_status]
                    ELSE tickets[t]],
     managers |-> [i \in DOMAIN managers |-> VisibleManager(w, i)],
     analytics |-> analytics \o tx[w].analytics,
     assignments |-> assignments \o tx[w].assignments,
     rr |-> VisibleRR(w)]

Commit(w) ==
    /\ pc[w] = "commit"
    /\ IF tx[w].status = "failed"
       THEN UNCHANGED db
       ELSE /\ tickets' = Applied(w).tickets
            /\ managers' = Applied(w).managers
            /\ analytics' = Applied(w).analytics
            /\ assignments' = Applied(w).assignments
            /\ rr' = Applied(w).rr
            /\ UNCHANGED <<offices, cache>>
    /\ pc' = [pc EXCEPT ![w] = "idle"]
    /\ tx' = [tx EXCEPT ![w] = EmptyTx("none")]
    /\ results' = [results EXCEPT ![w] = << >>]
    /\ UNCHANGED <<queue, frame>>

\* asyncio.CancelledError is not an Exception: it leaves execute and the
\* route without a result and without session.commit().
Cancel(w) ==
    /\ pc[w] \notin {"idle", "commit"}
    /\ pc' = [pc EXCEPT ![w] = "idle"]
    /\ tx' = [tx EXCEPT ![w] = EmptyTx("none")]
    /\ queue' = [queue EXCEPT ![w] = << >>]
    /\ frame' = [frame EXCEPT ![w] = EmptyFrame]
    /\ results' = [results EXCEPT ![w] = << >>]
    /\ UNCHANGED db

(***************************************************************************)
(* Initial states: the database after seeding.                             *)
(***************************************************************************)
Office(id, name, location) == [id |-> id, name |-> name, location |-> location]

Manager(id, position, office_id, skills, current_load) ==
    [id |-> id, position |-> position, office_id |-> office_id,
     skills |-> skills, current_load |-> current_load]

TicketKind(segment, country, has_address, kz_place) ==
    [segment |-> segment, country |-> country, has_address |-> has_address,
     kz_place |-> kz_place]

Domestic(segment) == TicketKind(segment, "domestic", TRUE, TRUE)
Abroad(segment) == TicketKind(segment, "foreign", TRUE, FALSE)
Unknown(segment) == TicketKind(segment, "none", FALSE, FALSE)

HubOffices == <<Office(1, ASTANA_HUB, 0), Office(2, ALMATY_HUB, MaxCoord)>>

\* The seeded databases the model starts from: offices, managers, and the
\* kinds the seeded tickets take in turn.
Worlds ==
    {[offices |-> HubOffices,
      managers |-> <<Manager(1, SPECIALIST, 1, {}, 0), Manager(2, SPECIALIST, 1, {}, 0)>>,
      kinds |-> <<Domestic("Mass")>>],
     [offices |-> HubOffices,
      managers |-> <<Manager(1, SENIOR_SPECIALIST, 1, {}, 1),
                     Manager(2, CHIEF_SPECIALIST, 2, {"VIP", "KZ"}, 0)>>,
      kinds |-> <<Abroad("VIP"), Unknown("Mass")>>],
     [offices |-> <<Office(1, "Aktau", NoLoc), Office(2, ALMATY_HUB, MaxCoord)>>,
      managers |-> <<Manager(1, SPECIALIST, 2, {"KZ"}, 0),
                     Manager(2, SPECIALIST, 2, {}, 0),
                     Manager(3, SENIOR_SPECIALIST, 1, {"ENG"}, 0)>>,
      kinds |-> <<Domestic("Priority"), Abroad("Mass")>>],
     [offices |-> HubOffices,
      managers |-> << >>,
      kinds |-> <<Domestic("Mass"), Abroad("VIP")>>],
     [offices |-> <<Office(1, "Aktau", NoLoc)>>,
      managers |-> <<Manager(1, SPECIALIST, 1, {}, 0)>>,
      kinds |-> <<Domestic("Mass")>>]}

\* seed_db: tickets are stored without coordinates, geo_status "pending"
Ticket(id, k) ==
    [id |-> id, segment |-> k.segment, country |-> k.country,
     has_address |-> k.has_address, kz_place |-> k.kz_place,
     client_location |-> NoLoc, geo_status |-> "pending"]

Init ==
    /\ \E world \in Worlds :
        /\ offices = world.offices
        /\ managers = world.managers
        /\ tickets = [t \in TicketIds |->
                        Ticket(t, world.kinds[((t - 1) % Len(world.kinds)) + 1])]
    /\ analytics = << >>
    /\ assignments = << >>
    /\ rr = EmptyFn
    /\ cache = EmptyFn
    /\ pc = [w \in Workers |-> "idle"]
    /\ queue = [w \in Workers |-> << >>]
    /\ frame = [w \in Workers |-> EmptyFrame]
    /\ tx = [w \in Workers |-> EmptyTx("none")]
    /\ results = [w \in Workers |-> << >>]

Next ==
    \/ \E w \in Workers, t \in TicketIds : ProcessSingle(w, t)
    \/ \E w \in Workers : ProcessAll(w)
    \/ \E w \in Workers : Analyze(w)
    \/ \E w \in Workers : Geocode(w)
    \/ \E w \in Workers : SelectOffice(w)
    \/ \E w \in Workers : FallbackFlush(w)
    \/ \E w \in Workers : FilterManagers(w)
    \/ \E w \in Workers : RRSelect(w)
    \/ \E w \in Workers : RRFlush(w)
    \/ \E w \in Workers : SaveAssignment(w)
    \/ \E w \in Workers : IncrementLoad(w)
    \/ \E w \in Workers : Commit(w)
    \/ \E w \in Workers : Cancel(w)

Spec == Init /\ [][Next]_vars


(***************************************************************************)
(* Requests served one after another: a single worker, on the database of  *)
(* scenario S6 (two managers without skills at load 0 in one office, no    *)
(* counter advanced yet).                                                  *)
(***************************************************************************)
S6World ==
    [offices |-> HubOffices,
     managers |-> <<Manager(1, SPECIALIST, 1, {}, 0), Manager(2, SPECIALIST, 1, {}, 0)>>,
     kinds |-> <<Domestic("Mass")>>]

InitSequential ==
    /\ offices = S6World.offices
    /\ managers = S6World.managers
    /\ tickets = [t \in TicketIds |-> Ticket(t, S6World.kinds[1])]
    /\ analytics = << >>
    /\ assignments = << >>
    /\ rr = EmptyFn
    /\ cache = EmptyFn
    /\ pc = [w \in Workers |-> "idle"]
    /\ queue = [w \in Workers |-> << >>]
    /\ frame = [w \in Workers |-> EmptyFrame]
    /\ tx = [w \in Workers |-> EmptyTx("none")]
    /\ results = [w \in Workers |-> << >>]

NextSequential ==
    \E w \in {1} :
        \/ \E t \in TicketIds : ProcessSingle(w, t)
        \/ ProcessAll(w)
        \/ Analyze(w)
        \/ Geocode(w)
        \/ SelectOffice(w)
        \/ FallbackFlush(w)
        \/ FilterManagers(w)
        \/ RRSelect(w)
        \/ RRFlush(w)
        \/ SaveAssignment(w)
        \/ IncrementLoad(w)
        \/ Commit(w)
        \/ Cancel(w)

SpecSequential == InitSequential /\ [][NextSequential]_vars

(***************************************************************************)
(* The counter store alone: every worker issues NumAdvances calls of       *)
(* increment_counter on one key that has never been advanced, each call in *)
(* a transaction of its own, and collects the values returned.             *)
(***************************************************************************)
NumAdvances == 2

InitCounter ==
    /\ offices = HubOffices
    /\ managers = << >>
    /\ tickets = [t \in TicketIds |-> Ticket(t, Domestic("Mass"))]
    /\ analytics = << >>
    /\ assignments = << >>
    /\ rr = EmptyFn
    /\ cache = EmptyFn
    /\ pc = [w \in Workers |-> "idle"]
    /\ queue = [w \in Workers |-> [i \in 1..NumAdvances |-> i]]
    /\ frame = [w \in Workers |-> EmptyFrame]
    /\ tx = [w \in Workers |-> EmptyTx("none")]
    /\ results = [w \in Workers |-> << >>]

AdvanceStart(w) ==
    /\ pc[w] = "idle"
    /\ Len(queue[w]) > 0
    /\ pc' = [pc EXCEPT ![w] = "counter_select"]
    /\ tx' = [tx EXCEPT ![w] = EmptyTx("active")]
    /\ UNCHANGED <<db, queue, frame, results>>

AdvanceSelect(w) ==
    /\ pc[w] = "counter_select"
    /\ ~SelectWaits(w, FallbackKey)
    /\ pc' = [pc EXCEPT ![w] = "counter_flush"]
    /\ frame' = [frame EXCEPT ![w] =
                    [@ EXCEPT !.m = SelectedRow(w, FallbackKey), !.rr_key = FallbackKey]]
    /\ tx' = [tx EXCEPT ![w] = SelectedTx(w, FallbackKey)]
    /\ UNCHANGED <<db, queue, results>>

\* The value returned, or NoRow when the call raised.
AdvanceFlush(w) ==
    /\ pc[w] = "counter_flush"
    /\ IF CounterFlushFails(w)
       THEN /\ results' = [results EXCEPT ![w] = Append(@, NoRow)]
            /\ tx' = [tx EXCEPT ![w] = Rollback(w)]
       ELSE /\ ~CounterFlushWaits(w)
            /\ results' = [results EXCEPT ![w] = Append(@, OldValue(frame[w].m))]
            /\ tx' = [tx EXCEPT ![w] = Flushed(w)]
    /\ pc' = [pc EXCEPT ![w] = "counter_commit"]
    /\ UNCHANGED <<db, queue, frame>>

AdvanceCommit(w) ==
    /\ pc[w] = "counter_commit"
    /\ rr' = IF tx[w].status = "failed" THEN rr ELSE Applied(w).rr
    /\ pc' = [pc EXCEPT ![w] = "idle"]
    /\ tx' = [tx EXCEPT ![w] = EmptyTx("none")]
    /\ queue' = [queue EXCEPT ![w] = Tail(@)]
    /\ frame' = [frame EXCEPT ![w] = EmptyFrame]
    /\ UNCHANGED <<offices, tickets, managers, analytics, assignments, cache, results>>

NextCounter ==
    \/ \E w \in Workers : AdvanceStart(w)
    \/ \E w \in Workers : AdvanceSelect(w)
    \/ \E w \in Workers : AdvanceFlush(w)
    \/ \E w \in Workers : AdvanceCommit(w)

SpecCounter == InitCounter /\ [][NextCounter]_vars


(***************************************************************************)
(* Properties                                                              *)
(***************************************************************************)
RowsOf(rows, t) == {i \in DOMAIN rows : rows[i].ticket_id = t}

Executing(w) == pc[w] \notin {"idle", "commit"}

CurrentTicket(w) == frame[w].ticket.id

LastResult(w) == results[w][Len(results[w])]

\* C1: after any sequence of executions, repeated ones on the same ticket
\* included, every ticket has at most one Analysis row and at most one
\* Assignment row.
C1_AtMostOneRecord ==
    \A t \in TicketIds :
        /\ Cardinality(RowsOf(analytics, t)) <= 1
        /\ Cardinality(RowsOf(assignments, t)) <= 1

\* An execution has run again on a ticket that is already analysed and
\* assigned, and was refused.
C1_Witness ==
    \E w \in Workers :
        /\ Len(results[w]) > 0
        /\ LastResult(w).error = "IntegrityError"
        /\ RowsOf(analytics, LastResult(w).ticket_id) # {}
        /\ RowsOf(assignments, LastResult(w).ticket_id) # {}


NoPendingWrites(x) ==
    /\ Len(x.analytics) = 0
    /\ Len(x.assignments) = 0
    /\ DOMAIN x.rr = {}
    /\ DOMAIN x.loads = {}

\* The execution of worker w ends in this step (with a result, or cancelled).
ExecutionEnds(w) == Executing(w) /\ (queue'[w] # queue[w] \/ pc'[w] = "idle")

\* C2: a second execution on a ticket that already has an Assignment is a
\* no-op: it never gets past step 1, and the step that ends it changes no
\* table and leaves nothing to commit (no Analysis, no Assignment, no
\* counter advance, no load change).
C2_ReplayIsNoOp ==
    [][\A w \in Workers :
        (Executing(w) /\ HasAssignment(assignments, CurrentTicket(w)))
            => /\ pc[w] = "analyze"
               /\ (ExecutionEnds(w) => UNCHANGED db /\ NoPendingWrites(tx'[w]))]_vars

\* A request that replayed an assigned ticket is about to commit.
C2_Witness ==
    \E w \in Workers :
        /\ pc[w] = "commit"
        /\ Len(results[w]) = 1
        /\ results[w][1].error = "IntegrityError"
        /\ HasAssignment(assignments, results[w][1].ticket_id)
        /\ NoPendingWrites(tx[w])

\* The values increment_counter has returned so far (NoRow: the call raised)
Returned == UNION {Range(results[w]) : w \in Workers}

AllAdvancesDone == \A w \in Workers : pc[w] = "idle" /\ Len(queue[w]) = 0

\* C3: when NumWorkers workers each issue NumAdvances advances on a key
\* never advanced before, the returned previous values are exactly
\* 0 .. NumWorkers*NumAdvances - 1, no duplicate and no gap.
C3_ReturnedValuesExact ==
    AllAdvancesDone => Returned = 0 .. (NumWorkers * NumAdvances - 1)


\* The queue (rr_key) an Assignment was sequenced by, from the Analysis of
\* its ticket; FallbackKey when the ticket has no Analysis among the rows.
KeyOfAssignment(a, anRows) ==
    IF ~HasAnalysis(anRows, a.ticket_id) THEN FallbackKey
    ELSE LET an == anRows[CHOOSE i \in DOMAIN anRows : anRows[i].ticket_id = a.ticket_id]
         IN  RRKey(a.office_id,
                   determine_required_skills(tickets[a.ticket_id].segment,
                                             an.ticket_type, an.language),
                   an)

InQueue(rows, anRows, key) ==
    Cardinality({i \in DOMAIN rows : KeyOfAssignment(rows[i], anRows) = key})

AssignedTo(rows, id) == Cardinality({i \in DOMAIN rows : rows[i].manager_id = id})

Counter(r, key) == IF key \in DOMAIN r THEN r[key] ELSE 0

\* Steps 6 and 7 of execute: counter advance, Assignment, load increment
PersistSteps == {"rr_select", "rr_flush", "save", "load"}

\* In every step, each per-queue counter grows by the number of Assignments
\* added to its queue and each manager's load by the number of Assignments
\* added that name the manager.
CommittedTogether ==
    /\ \A key \in (DOMAIN rr \cup DOMAIN rr') \ {FallbackKey} :
          Counter(rr', key) - Counter(rr, key)
            = InQueue(assignments', analytics', key) - InQueue(assignments, analytics, key)
    /\ \A id \in DOMAIN managers :
          managers'[id].current_load - managers[id].current_load
            = AssignedTo(assignments', id) - AssignedTo(assignments, id)

\* An execution that ends with a result in steps 6-7 either flushed all
\* three changes and reports no error, or reports an error and leaves a
\* transaction that will commit nothing.
AllOrErrorResult(w) ==
    (pc[w] \in PersistSteps /\ queue'[w] # queue[w] /\ pc'[w] # "idle")
        => LET r == results'[w][Len(results'[w])]
           IN  /\ Len(results'[w]) = Len(results[w]) + 1
               /\ r.ticket_id = CurrentTicket(w)
               /\ IF r.error = None
                  THEN /\ HasAssignment(tx'[w].assignments, r.ticket_id)
                       /\ frame[w].rr_key \in DOMAIN tx'[w].rr
                       /\ frame[w].chosen \in DOMAIN tx'[w].loads
                  ELSE tx'[w] = EmptyTx("failed")

CancelledInPersist(w) == pc[w] \in PersistSteps /\ pc'[w] = "idle"

\* C4 (amended): counter advance, Assignment write and load increment take
\* effect together or not at all.  A failure of any of the three gives the
\* ticket a per-ticket error and none of the changes remains; a cancellation
\* between them leaves none of the changes either, but the request ends
\* without any per-ticket result.
C4_AllOrNothing ==
    [][/\ CommittedTogether
       /\ \A w \in Workers :
            /\ AllOrErrorResult(w)
            /\ CancelledInPersist(w)
                 => UNCHANGED db /\ NoPendingWrites(tx'[w]) /\ Len(results'[w]) = 0]_vars

\* C4 as claimed: the same, but a cancelled execution too ends with a
\* per-ticket error for its ticket.
C4_CancelledGetsError ==
    [][/\ CommittedTogether
       /\ \A w \in Workers :
            /\ AllOrErrorResult(w)
            /\ CancelledInPersist(w)
                 => /\ UNCHANGED db
                    /\ NoPendingWrites(tx'[w])
                    /\ Len(results'[w]) > 0
                    /\ results'[w][Len(results'[w])].ticket_id = CurrentTicket(w)
                    /\ results'[w][Len(results'[w])].error # None]_vars

\* The Assignment write or the load increment failed after the counter of
\* the queue had been advanced in the same transaction.
C4_Witness ==
    \E w \in Workers :
        /\ Len(results[w]) > 0
        /\ LastResult(w).error \in {"assignment save failed", "load increment failed"}
        /\ tx[w] = EmptyTx("failed")
        /\ rr = EmptyFn

\* The queue of scenario S6: the managers' office is the nearest one, Mass
\* segment, a Consultation in RU.
S6Queue ==
    RRKey(1, determine_required_skills("Mass", CONSULTATION, "RU"),
          [ticket_type |-> CONSULTATION, language |-> "RU"])

\* C5: tickets of one queue (same nearest office, segment, language, type)
\* processed one after another by two skill-less managers 1 and 2 starting
\* at load 0 with a fresh counter go to managers 1, 2, 1, 2, ... in turn.
C5_AlternatingSequence ==
    (\A i \in DOMAIN assignments :
        /\ ~assignments[i].fallback_used
        /\ KeyOfAssignment(assignments[i], analytics) = S6Queue)
    => \A i \in DOMAIN assignments :
          assignments[i].manager_id = IF i % 2 = 1 THEN 1 ELSE 2


\* What steps 4 to 6 decide when get_by_office returns the rows in the given
\* order: the manager picked for either parity of the counter, or nobody.
Decision(w, order) ==
    LET eligible == Eligible(get_by_office(w, order), get_all_managers(w),
                             Requirement(frame[w]))
    IN  IF Len(eligible) = 0 THEN <<NoId, NoId>>
        ELSE <<pick_next(Top2(eligible), 0).id, pick_next(Top2(eligible), 1).id>>

\* C6: the pipeline is deterministic under replay.  Every step is a function
\* of the stored state and of the classifier's and geocoder's answers; the
\* one thing the database may do differently between two runs is the order
\* of the rows of get_by_office, and the manager chosen does not depend on it.
C6_DeterministicChoice ==
    \A w \in Workers :
        pc[w] = "filter"
            => \A o1, o2 \in RowOrders(OfficeManagerIds(frame[w].office_sel.office_id)) :
                  Decision(w, o1) = Decision(w, o2)

\* The managers of the selected office can come in more than one order, and
\* two of them tie on the load.
C6_Witness ==
    \E w \in Workers :
        /\ pc[w] = "filter"
        /\ \E i, j \in OfficeManagerIds(frame[w].office_sel.office_id) :
              /\ i # j
              /\ VisibleManager(w, i).current_load = VisibleManager(w, j).current_load
              /\ Decision(w, <<i, j>>)[1] # NoId

\* C7: when the classifier returns Spam (and the Analysis is saved), execute
\* ends at once with a result naming no manager, no office and no error;
\* the step flushes the Analysis row and nothing else, so no Assignment, no
\* counter advance, no load change and no ticket update is written, and
\* the geocoder step is never entered.
C7_SpamFrame ==
    [][\A w \in Workers :
        (/\ pc[w] = "analyze"
         /\ Len(tx'[w].analytics) = Len(tx[w].analytics) + 1
         /\ tx'[w].analytics[Len(tx'[w].analytics)].ticket_type = SPAM)
        => /\ UNCHANGED db
           /\ queue'[w] = Tail(queue[w])
           /\ pc'[w] \in {"analyze", "commit"}
           /\ results'[w] = Append(results[w],
                 ProcessingResult(CurrentTicket(w), NoId, NoId, NoDistance, FALSE, None))
           /\ tx'[w] = [tx[w] EXCEPT !.analytics = Append(@,
                 [ticket_id |-> CurrentTicket(w), ticket_type |-> SPAM,
                  language |-> tx'[w].analytics[Len(tx'[w].analytics)].language])]]_vars

\* A request that processed one Spam ticket has committed: the Analysis is
\* there, nothing else is.
C7_Witness ==
    /\ \E i \in DOMAIN analytics : analytics[i].ticket_type = SPAM
    /\ Len(analytics) = 1
    /\ Len(assignments) = 0
    /\ rr = EmptyFn
    /\ \A t \in TicketIds : tickets[t].geo_status = "pending"


\* The ticket has an Analysis: committed, or flushed in a transaction of
\* worker w that can still commit.
AnalysisKept(w, t) ==
    \/ HasAnalysis(analytics, t)
    \/ tx[w].status = "active" /\ HasAnalysis(tx[w].analytics, t)

\* Every ticket with an Assignment has an Analysis, in the tables and among
\* the rows a transaction has flushed.
AnalysisBeforeAssignment ==
    /\ \A i \in DOMAIN assignments : HasAnalysis(analytics, assignments[i].ticket_id)
    /\ \A w \in Workers : \A i \in DOMAIN tx[w].assignments :
          HasAnalysis(tx[w].analytics, tx[w].assignments[i].ticket_id)

\* The last execution of worker w got past step 1 and ended with an error:
\* its assignment failed (the save raised) or was skipped (nobody eligible).
AssignmentFailed(w) ==
    /\ pc[w] \in {"analyze", "commit"}
    /\ Len(results[w]) > 0
    /\ LastResult(w).error \in {"assignment save failed", "No eligible managers found"}

\* C8: the Analysis is persisted before any Assignment, so every ticket with
\* an Assignment has an Analysis, and a ticket whose assignment failed or
\* was skipped still has its Analysis.
C8_AnalysisKept ==
    /\ AnalysisBeforeAssignment
    /\ \A w \in Workers :
          AssignmentFailed(w) => AnalysisKept(w, LastResult(w).ticket_id)

\* fallback_used, distance_km and the ticket's coordinates agree on a row
FallbackAgrees(a, location) ==
    /\ a.fallback_used <=> a.distance_km = NoDistance
    /\ a.fallback_used <=> location = NoLoc

\* C9: an Assignment with fallback_used = true has no distance_km, one with
\* fallback_used = false has a distance_km, and fallback_used is true
\* exactly when the ticket had no coordinates when the office was selected.
C9_FallbackIffNoDistance ==
    /\ \A i \in DOMAIN assignments :
          FallbackAgrees(assignments[i], tickets[assignments[i].ticket_id].client_location)
    /\ \A w \in Workers :
          pc[w] \in {"filter", "rr_select", "rr_flush", "save", "load"}
              => FallbackAgrees(frame[w].office_sel, frame[w].ticket.client_location)

\* Both kinds of Assignment have been written.
C9_Witness ==
    \E i, j \in DOMAIN assignments :
        /\ assignments[i].fallback_used
        /\ assignments[i].distance_km = NoDistance
        /\ ~assignments[j].fallback_used
        /\ assignments[j].distance_km # NoDistance

\* The skills required for the ticket of an Assignment
RequiredSkills(a, anRows) ==
    LET an == anRows[CHOOSE i \in DOMAIN anRows : anRows[i].ticket_id = a.ticket_id]
    IN  determine_required_skills(tickets[a.ticket_id].segment,
                                  an.ticket_type, an.language).required_skills

FullyQualified(a, anRows) ==
    LET an == anRows[CHOOSE i \in DOMAIN anRows : anRows[i].ticket_id = a.ticket_id]
    IN  {id \in DOMAIN managers :
            /\ RequiredSkills(a, anRows) \subseteq managers[id].skills
            /\ (an.ticket_type = DATA_CHANGE => managers[id].position = CHIEF_SPECIALIST)}

\* C10 as claimed: in every Assignment the chosen manager has every skill
\* required for the ticket (VIP for the VIP and Priority segments, KZ or ENG
\* for the language).
C10_ChosenHasSkills ==
    \A i \in DOMAIN assignments :
        RequiredSkills(assignments[i], analytics)
            \subseteq managers[assignments[i].manager_id].skills

\* C10 (amended): the chosen manager has every required skill whenever some
\* manager of any office meets the whole requirement, skills and rank; when
\* nobody does, the skills are dropped and the ticket is assigned anyway.
C10_ChosenHasSkillsIfAnyoneDoes ==
    \A i \in DOMAIN assignments :
        FullyQualified(assignments[i], analytics) # {}
            => assignments[i].manager_id \in FullyQualified(assignments[i], analytics)

\* A ticket that requires a skill went to a manager who has it, past a
\* manager who has not.
C10_Witness ==
    \E i \in DOMAIN assignments :
        /\ RequiredSkills(assignments[i], analytics) # {}
        /\ assignments[i].manager_id \in FullyQualified(assignments[i], analytics)
        /\ \E id \in DOMAIN managers :
              ~(RequiredSkills(assignments[i], analytics) \subseteq managers[id].skills)


\* The Analysis row of the ticket of an Assignment
AnalysisOf(a, anRows) ==
    anRows[CHOOSE i \in DOMAIN anRows : anRows[i].ticket_id = a.ticket_id]

\* C11: a ticket classified as DataChange is only ever assigned to a Chief
\* Specialist, in every widening tier: the Assignment written names a Chief,
\* and the shortlist handed to pick_next holds Chiefs only, so the choice is
\* a Chief whatever the counter value.
C11_DataChangeToChief ==
    /\ \A i \in DOMAIN assignments :
          AnalysisOf(assignments[i], analytics).ticket_type = DATA_CHANGE
              => managers[assignments[i].manager_id].position = CHIEF_SPECIALIST
    /\ \A w \in Workers :
          (pc[w] \in {"rr_select", "rr_flush"} /\ frame[w].analysis.ticket_type = DATA_CHANGE)
              => \A counter \in 0 .. 3 :
                    pick_next(frame[w].top2, counter).position = CHIEF_SPECIALIST

\* A DataChange ticket nobody has the skills for went to the Chief by the
\* position-only tier, past a Senior Specialist.
C11_Witness ==
    \E i \in DOMAIN assignments :
        /\ AnalysisOf(assignments[i], analytics).ticket_type = DATA_CHANGE
        /\ managers[assignments[i].manager_id].position = CHIEF_SPECIALIST
        /\ FullyQualified(assignments[i], analytics) = {}
        /\ \E id \in DOMAIN managers : managers[id].position = SENIOR_SPECIALIST


\* Nobody can take the ticket of worker w: there is no manager at all, or
\* the ticket is a DataChange and no office has a Chief Specialist.
NobodyToAssign(w) ==
    \/ Len(managers) = 0
    \/ /\ frame[w].analysis.ticket_type = DATA_CHANGE
       /\ \A id \in DOMAIN managers : managers[id].position # CHIEF_SPECIALIST

\* Step 4 of worker w finds no eligible manager, whatever the row order
NoneEligible(w) ==
    \A order \in RowOrders(OfficeManagerIds(frame[w].office_sel.office_id)) :
        Len(Eligible(get_by_office(w, order), get_all_managers(w),
                     Requirement(frame[w]))) = 0

\* The execution of worker w ends in this step with the given error
EndsWithError(w, error) ==
    /\ Executing(w)
    /\ Len(results'[w]) = Len(results[w]) + 1
    /\ results'[w][Len(results'[w])].error = error

\* C12: when no manager is eligible after all widening tiers, execute returns
\* 'No eligible managers found' with no manager; the Analysis flushed in
\* step 1 stays in the transaction, no Assignment is written, no per-queue
\* counter is advanced and no load changes.  This happens exactly when there
\* is no manager at all, or the ticket is a DataChange and no Chief exists.
C12_NoEligibleManagers ==
    [][\A w \in Workers :
        /\ pc[w] = "filter" => (NoneEligible(w) <=> NobodyToAssign(w))
        /\ EndsWithError(w, "No eligible managers found")
             => /\ pc[w] = "filter"
                /\ NobodyToAssign(w)
                /\ results'[w][Len(results'[w])]
                     = ProcessingResult(CurrentTicket(w), NoId, NoId, NoDistance,
                                        frame[w].office_sel.fallback_used,
                                        "No eligible managers found")
                /\ tx'[w] = tx[w]
                /\ tx[w].status = "active"
                /\ HasAnalysis(tx[w].analytics, CurrentTicket(w))
                /\ ~HasAssignment(tx[w].assignments, CurrentTicket(w))
                /\ UNCHANGED db
        /\ (pc[w] = "filter" /\ NobodyToAssign(w) /\ pc'[w] # pc[w] /\ pc'[w] # "idle")
             => EndsWithError(w, "No eligible managers found")]_vars

\* A DataChange ticket of a database with managers but no Chief has been
\* committed with its Analysis and without an Assignment.
C12_Witness ==
    \E i \in DOMAIN analytics :
        /\ analytics[i].ticket_type = DATA_CHANGE
        /\ ~HasAssignment(assignments, analytics[i].ticket_id)
        /\ Len(managers) > 0
        /\ \A id \in DOMAIN managers : managers[id].position # CHIEF_SPECIALIST
        /\ \A id \in DOMAIN managers : managers[id].current_load = 0


\* The results collected by worker w come one per ticket, in ascending
\* ticket id order, followed by the tickets still to process.
OneResultPerTicketInOrder(w) ==
    LET ids == [i \in DOMAIN results[w] |-> results[w][i].ticket_id]
                 \o [i \in DOMAIN queue[w] |-> queue[w][i].id]
    IN  \A i, j \in DOMAIN ids : i < j => ids[i] < ids[j]

\* The execution that gave results[w][i] ran the pipeline on its ticket: it
\* did not end in step 1 on the session an earlier ticket's error had left
\* unusable.
Processed(w, i) == results[w][i].error # "PendingRollbackError"

\* C13: the batch runs the pipeline once for each ticket without an
\* Analysis, in ascending id order, with one result per ticket, and an error
\* on one ticket never prevents the following tickets from being processed.
C13_BatchProcessesEveryTicket ==
    \A w \in Workers :
        /\ OneResultPerTicketInOrder(w)
        /\ \A i \in DOMAIN results[w] : Processed(w, i)

\* The first half alone
BatchOnePerTicketInOrder == \A w \in Workers : OneResultPerTicketInOrder(w)


\* Tickets left analysed but unassigned: an Analysis that is not Spam and no
\* Assignment
AnalysedUnassigned ==
    {t \in TicketIds :
        /\ \E i \in DOMAIN analytics :
              analytics[i].ticket_id = t /\ analytics[i].ticket_type # SPAM
        /\ ~HasAssignment(assignments, t)}

\* The tickets a batch started now would process
SelectedByBatch == {get_unprocessed[i].id : i \in DOMAIN get_unprocessed}

\* C14: a ticket left with an Analysis but no Assignment is retried by the
\* batch driver: BatchProcessUseCase.execute selects it again.
C14_UnassignedIsSelectedAgain == AnalysedUnassigned \subseteq SelectedByBatch


\* The ticket came without coordinates and names a country that is not the
\* domestic one.
FromAbroad(ticket) == ticket.country = "foreign"

BothHubs == HasNamed(offices, ASTANA_HUB) /\ HasNamed(offices, ALMATY_HUB)

\* The hub the fallback owes a ticket for the given pre-advance value
HubFor(counter) ==
    IF counter % 2 = 0 THEN LastNamed(offices, ASTANA_HUB).id
    ELSE LastNamed(offices, ALMATY_HUB).id

\* C15: a ticket without coordinates whose country is set and is not the
\* domestic one gets geo_status = abroad without a geocoder call and is
\* routed by the fallback: fallback_used = true and, with both hubs present,
\* the Astana hub for an even pre-advance value of office-fallback-50-50 and
\* the Almaty hub for an odd one.
C15_AbroadGoesToHub ==
    [][\A w \in Workers :
        /\ (pc[w] \in {"office", "fallback_flush", "filter", "rr_select", "rr_flush",
                       "save", "load"} /\ FromAbroad(frame[w].ticket))
             => /\ frame[w].ticket.geo_status = "abroad"
                /\ frame[w].ticket.client_location = NoLoc
                /\ ~frame[w].geocoded
                /\ pc[w] = "office" => pc'[w] \in {"office", "fallback_flush", "analyze",
                                                   "commit", "idle"}
        /\ (pc[w] = "fallback_flush" /\ pc'[w] = "filter" /\ FromAbroad(frame[w].ticket))
             => /\ frame'[w].office_sel.fallback_used
                /\ frame'[w].office_sel.distance_km = NoDistance
                /\ BothHubs => frame'[w].office_sel.office_id
                                  = HubFor(tx'[w].rr[FallbackKey] - 1)
        /\ \A i \in DOMAIN assignments :
              FromAbroad(tickets[assignments[i].ticket_id])
                 => /\ assignments[i].fallback_used
                    /\ tickets[assignments[i].ticket_id].geo_status = "abroad"]_vars

\* A ticket from abroad met an odd counter and was sent to the Almaty hub.
C15_Witness ==
    \E w \in Workers :
        /\ pc[w] = "filter"
        /\ FromAbroad(frame[w].ticket)
        /\ BothHubs
        /\ tx[w].rr[FallbackKey] = 2
        /\ frame[w].office_sel.office_id = LastNamed(offices, ALMATY_HUB).id
        /\ frame[w].office_sel.fallback_used


\* geo_status agrees with the coordinates and the country of a ticket
GeoStatusAgrees(status, location, country) ==
    /\ status = "resolved" => location # NoLoc
    /\ status = "failed" => location = NoLoc
    /\ status = "abroad" => country = "foreign"

\* C16: after any execution a ticket with geo_status = resolved has
\* coordinates, one with geo_status = failed has none, and one with
\* geo_status = abroad has a country that is set and is not the domestic one.
\* Stated of the stored tickets, of the updates flushed and not yet
\* committed, and of the ticket every running execution holds.
C16_GeoStatusConsistent ==
    /\ \A t \in TicketIds :
          GeoStatusAgrees(tickets[t].geo_status, tickets[t].client_location,
                          tickets[t].country)
    /\ \A w \in Workers :
          /\ \A t \in DOMAIN tx[w].tickets :
                GeoStatusAgrees(tx[w].tickets[t].geo_status,
                                tx[w].tickets[t].client_location, tickets[t].country)
          /\ Executing(w)
                => GeoStatusAgrees(frame[w].ticket.geo_status,
                                   frame[w].ticket.client_location,
                                   frame[w].ticket.country)

\* One stored ticket was resolved by the geocoder, another is from abroad.
C16_Witness ==
    \E t1, t2 \in TicketIds :
        /\ tickets[t1].geo_status = "resolved"
        /\ tickets[t1].client_location # NoLoc
        /\ tickets[t2].geo_status = "abroad"
        /\ tickets[t2].client_location = NoLoc



(***************************************************************************)
(* The counter store with both of its operations: inside its transaction   *)
(* and before its advance a worker may call get_counter any number of      *)
(* times.                                                                  *)
(***************************************************************************)
\* get_counter: a plain SELECT, no row lock taken
GetCounterSelect(w) ==
    /\ pc[w] = "counter_select"
    /\ pc' = [pc EXCEPT ![w] = "get_flush"]
    /\ frame' = [frame EXCEPT ![w] =
                    [@ EXCEPT !.m = SelectedRow(w, FallbackKey), !.rr_key = FallbackKey]]
    /\ UNCHANGED <<db, queue, tx, results>>

\* get_counter: a missing row is inserted with counter = 0 and flushed; the
\* value of the row is returned (kept in m), or the INSERT raises.
GetCounterFlush(w) ==
    /\ pc[w] = "get_flush"
    /\ IF frame[w].m # NoRow
       THEN /\ pc' = [pc EXCEPT ![w] = "counter_select"]
            /\ UNCHANGED <<db, queue, frame, tx, results>>
       ELSE IF CounterInsertViolation(FallbackKey)
            THEN /\ pc' = [pc EXCEPT ![w] = "counter_commit"]
                 /\ tx' = [tx EXCEPT ![w] = Rollback(w)]
                 /\ results' = [results EXCEPT ![w] = Append(@, NoRow)]
                 /\ UNCHANGED <<db, queue, frame>>
            ELSE /\ ~CounterInsertWaits(w, FallbackKey)
                 /\ pc' = [pc EXCEPT ![w] = "counter_select"]
                 /\ tx' = [tx EXCEPT ![w] =
                             [@ EXCEPT !.rr = (FallbackKey :> 0) @@ @,
                                       !.rrLocks = @ \cup {FallbackKey}]]
                 /\ frame' = [frame EXCEPT ![w] = [@ EXCEPT !.m = 0]]
                 /\ UNCHANGED <<db, queue, results>>

NextCounterStore ==
    \/ \E w \in Workers : AdvanceStart(w)
    \/ \E w \in Workers : GetCounterSelect(w)
    \/ \E w \in Workers : GetCounterFlush(w)
    \/ \E w \in Workers : AdvanceSelect(w)
    \/ \E w \in Workers : AdvanceFlush(w)
    \/ \E w \in Workers : AdvanceCommit(w)

SpecCounterStore == InitCounter /\ [][NextCounterStore]_vars

\* The counter of the key as the statements of worker w see it
VisibleCounter(w) == Counter(VisibleRR(w), FallbackKey)

\* increment_counter of worker w returns in this step
AdvanceReturns(w) ==
    /\ pc[w] = "counter_flush"
    /\ Len(results'[w]) = Len(results[w]) + 1
    /\ results'[w][Len(results'[w])] # NoRow

\* C17: increment_counter returns the value the counter had before the call
\* (0 for a key never advanced) and leaves the counter exactly one higher;
\* get_counter does not change the value; the stored counter of a key never
\* decreases.
C17_CounterAdvancesByOne ==
    [][/\ \A w \in Workers :
            /\ AdvanceReturns(w)
                 => /\ results'[w][Len(results'[w])] = VisibleCounter(w)
                    /\ Counter(tx'[w].rr @@ rr', FallbackKey) = VisibleCounter(w) + 1
            /\ (pc[w] = "get_flush" /\ pc'[w] # "get_flush")
                 => Counter(tx'[w].rr @@ rr', FallbackKey) = VisibleCounter(w)
       /\ \A key \in DOMAIN rr : key \in DOMAIN rr' /\ rr'[key] >= rr[key]]_vars

\* Two advances of the key were committed: the later one returned 1 and
\* the stored counter is 2.
C17_Witness ==
    /\ FallbackKey \in DOMAIN rr
    /\ rr[FallbackKey] = 2
    /\ \E w \in Workers :
          /\ Len(results[w]) >= 1
          /\ results[w][Len(results[w])] = 1
          /\ pc[w] = "idle"


\* The load the seeding gave manager id: the database started from one of
\* the seeded worlds, and nothing but current_load of a manager row changes.
SeededAs(world) ==
    /\ Len(world.managers) = Len(managers)
    /\ \A id \in DOMAIN managers :
          [managers[id] EXCEPT !.current_load = 0]
            = [world.managers[id] EXCEPT !.current_load = 0]

\* Every stored load is the seeded load plus the number of stored
\* Assignments that name the manager.
LoadsMatchAssignments ==
    \E world \in Worlds :
        /\ SeededAs(world)
        /\ \A id \in DOMAIN managers :
              managers[id].current_load
                = world.managers[id].current_load + AssignedTo(assignments, id)

\* increment_load of worker w is flushed in this step
IncrementsLoad(w) ==
    /\ pc[w] = "load"
    /\ pc'[w] # "load"
    /\ tx'[w].status = "active"

\* What a step of an execution adds to the loads its transaction holds: one
\* for the chosen manager when increment_load is flushed, nothing otherwise.
OnlyChosenLoadChanges(w) ==
    (tx[w].status = "active" /\ tx'[w].status = "active")
        => \A id \in DOMAIN managers :
              (IF id \in DOMAIN tx'[w].loads THEN tx'[w].loads[id] ELSE 0)
                = PendingLoad(w, id)
                    + (IF IncrementsLoad(w) /\ id = frame[w].chosen THEN 1 ELSE 0)

\* C18: load increments are never lost.  Whatever the interleaving of the
\* executions, each manager's stored current_load is its seeded load plus the
\* number of stored Assignments naming the manager, and an execution raises
\* the load of the manager it chose and of no other.
C18_LoadIncrementsNeverLost ==
    [][/\ LoadsMatchAssignments'
       /\ \A w \in Workers : OnlyChosenLoadChanges(w)]_vars

\* Two executions chose the same manager: two stored Assignments name the
\* manager, whose stored load went from 0 to 2.
C18_Witness ==
    \E id \in DOMAIN managers :
        /\ AssignedTo(assignments, id) = 2
        /\ managers[id].current_load = 2


(***************************************************************************)
(* The classifier (OpenAIAdapter).  A description is modelled by the set   *)
(* of words it is made of, taken from a vocabulary that has a word for     *)
(* every kind of marker the adapter looks for.  Markers and words that are *)
(* Cyrillic in the source are written in Latin letters here ("zablok" for  *)
(* the marker the source spells in Cyrillic, and so on).                   *)
(***************************************************************************)
MaxWords == 3

Vocabulary ==
    {"scam", "fraud", "locked out", "zablokirovan", "urgent", "prais",
     "https://x", "skidka", "uzhas", "resolved", "thanks", "rakhmet"}

\* The markers that are part of a longer word of the vocabulary.
PartOf ==
    {<<"zablok", "zablokirovan">>, <<"skidk", "skidka">>, <<"http", "https://x">>}

Descriptions == {t \in SUBSET Vocabulary : Cardinality(t) <= MaxWords}

\* p in t  (substring of the lowered text)
IsIn(p, t) == \E word \in t : p = word \/ <<p, word>> \in PartOf

\* len(t): no word of the vocabulary has more than 12 characters
TextLength(t) == 13 * Cardinality(t)

STRONG_POSITIVE ==
    {"vse resheno", "reshili", "pomogli", "vse zarabotalo", "dovolen", "dovolna",
     "zamechatelno", "prekrasno", "molodtsy",
     "great", "well done", "resolved", "fixed", "it works now"}

WEAK_POSITIVE ==
    {"spasibo", "sps", "rakhmet", "thank you", "thanks", "blagodaryu",
     "blagodaren", "blagodarna"}

ISSUE_MARKERS ==
    {"problem", "vopros", "podskazhite", "pomogite", "kak sdelat",
     "kak izmenit", "ne poluchaetsya", "dostup", "nuzhna pomoshch",
     "konsultatsiya", "utochnit", "razyasnit", "ne ponimayu",
     "how to", "question", "help me", "issue"}

FRAUD_MARKERS ==
    {"moshenn", "fraud", "scam", "alayak",
     "spisali dengi", "dengi propali",
     "nesanktsionirovan", "unauthorized"}

BLOCKED_MARKERS ==
    {"zablok", "ne mogu voiti", "scheta zablokirovany",
     "account blocked", "locked out"}

\* any(p in lowered_text for p in phrases)
has_any_phrase(lowered_text, phrases) == \E p \in phrases : IsIn(p, lowered_text)

\* re.search(rf"\b{w}\b", text): w stands in the text as a whole word
has_any_word(text, words) == \E w \in words : w \in text

URL_RE(t) == IsIn("http://", t) \/ IsIn("https://x", t)

looks_like_spam(text) ==
    LET t == text
        spam_markers ==
            {"vygodnoe predlozhenie", "spetsialnye tseny", "v nalichii",
             "minimalnyi zakaz", "otgruzka", "podberem oborudovanie",
             "pitomnik", "tyulpany", "skidk", "kupite", "zakazhite", "reklama"}
        spam_markers2 ==
            {"spetsialnye tseny", "minimalnyi zakaz", "v nalichii",
             "optov", "prais", "kommercheskoe predlozhenie"}
    IN  \/ /\ URL_RE(t)
           /\ \/ \E m \in spam_markers : IsIn(m, t)
              \/ /\ TextLength(t) > 200
                 /\ IsIn("http", t)
                 /\ (IsIn("predlozh", t) \/ IsIn("tsena", t))
        \/ \E m \in spam_markers2 : IsIn(m, t)

\* (the nine swear words of strong_phrases are in no word of the vocabulary
\* and are left out of the list)
has_strong_negative_evidence(text) ==
    LET strong_phrases ==
            {"vernite", "trebuyu", "obman", "uzhas", "bezobraz", "nedopustimo",
             "zhalob", "pretenz", "prokuratur", "regulyator", "zadolbal", "dostali"}
    IN  \/ has_any_phrase(text, strong_phrases)
        \/ has_any_word(text, {"sud"})
        \/ IsIn("!!", text)

detect_sentiment_markers(text) ==
    LET has_issue == has_any_phrase(text, ISSUE_MARKERS)
        has_strong_pos == has_any_phrase(text, STRONG_POSITIVE)
    IN  IF looks_like_spam(text) THEN "Neutral"
        ELSE IF has_strong_negative_evidence(text) THEN "Negative"
        ELSE IF has_issue THEN "Neutral"
        ELSE IF has_strong_pos /\ ~has_issue THEN "Positive"
        ELSE "Neutral"

has_urgency(text) ==
    \/ \E u \in {"srochno", "nemedlenno", "seichas zhe", "urgent", "asap", "immediately"} :
          IsIn(u, text)
    \/ \E w \in {"zablok", "ne mogu voiti", "scheta zablokirovany"} : IsIn(w, text)


Sentiment == {"Positive", "Neutral", "Negative"}

\* A field the LLM answer does not have.
Missing == "Missing"

\* self._model (settings.openai_model)
MODEL == "gpt-4o-mini"

max_retries == 3

AIAnalysis(ticket_type, sentiment, priority_score, language, llm_model) ==
    [ticket_type |-> ticket_type, sentiment |-> sentiment,
     priority_score |-> priority_score, language |-> language,
     llm_model |-> llm_model]

Max(a, b) == IF a >= b THEN a ELSE b

Min(a, b) == IF a <= b THEN a ELSE b

\* What one call of chat.completions.create may give: a transport error, a
\* text that is not JSON, or a JSON object whose fields are present or not;
\* priority_score is an integer, is missing, or is a text int() rejects.
Scores ==
    {[kind |-> "int", value |-> 0], [kind |-> "int", value |-> 11],
     [kind |-> "missing", value |-> 0], [kind |-> "text", value |-> 0]}

LLMResponses ==
    {[kind |-> k, ticket_type |-> Missing, sentiment |-> Missing,
      priority_score |-> [kind |-> "missing", value |-> 0], language |-> Missing] :
        k \in {"transport error", "malformed JSON"}}
    \cup
    [kind : {"json"},
     ticket_type : {"Fraud", SPAM, "Unknown", Missing},
     sentiment : {"Negative", "Positive", Missing},
     priority_score : Scores,
     language : {"KZ", Missing}]

\* dict.get(key, default) followed by MAP.get(value, default)
\* Faulty variant: the value of the answer is taken as it is.
EnumAsGiven(value, enum, default) == value

EnumOrDefault(value, enum, default) == IF value \in enum THEN value ELSE default

\* json.loads and _map_to_analysis go through without an exception
Parses(response) ==
    /\ response.kind = "json"
    /\ response.priority_score.kind # "text"

map_to_analysis(parsed) ==
    AIAnalysis(EnumOrDefault(parsed.ticket_type, TicketType, CONSULTATION),
               EnumOrDefault(parsed.sentiment, Sentiment, "Neutral"),
               Max(1, Min(10, IF parsed.priority_score.kind = "missing"
                              THEN 5 ELSE parsed.priority_score.value)),
               EnumOrDefault(parsed.language, Language, "RU"),
               MODEL)

spam_result == AIAnalysis(SPAM, "Neutral", 1, "RU", "spam-heuristic")

\* Faulty variant: the post-adjustment is left out.
no_post_adjust(analysis, original_text) == analysis

\* Faulty variant: a strong-positive phrase is looked at before the
\* strong-negative evidence.
post_adjust_positive_first(analysis, original_text) ==
    LET t == original_text
        strong_neg == has_strong_negative_evidence(t)
        strong_pos == has_any_phrase(t, STRONG_POSITIVE)
        weak_pos_only ==
            (has_any_phrase(t, WEAK_POSITIVE) \/ has_any_word(t, {"THX"})) /\ ~strong_pos
        is_fraud == has_any_phrase(t, FRAUD_MARKERS)
        is_blocked == has_any_phrase(t, BLOCKED_MARKERS)
        is_urgent == has_urgency(t)
        priority == IF is_fraud THEN Max(analysis.priority_score, 9)
                    ELSE IF is_blocked \/ is_urgent THEN Max(analysis.priority_score, 8)
                    ELSE analysis.priority_score
        sentiment == IF strong_pos THEN "Positive"
                     ELSE IF strong_neg THEN "Negative"
                     ELSE IF weak_pos_only THEN "Neutral"
                     ELSE IF analysis.sentiment = "Negative" THEN "Neutral"
                     ELSE analysis.sentiment
    IN  IF analysis.ticket_type = SPAM THEN analysis
        ELSE [analysis EXCEPT !.priority_score = priority, !.sentiment = sentiment]

post_adjust(analysis, original_text) ==
    LET t == original_text
        strong_neg == has_strong_negative_evidence(t)
        strong_pos == has_any_phrase(t, STRONG_POSITIVE)
        weak_pos_only ==
            (has_any_phrase(t, WEAK_POSITIVE) \/ has_any_word(t, {"THX"})) /\ ~strong_pos
        is_fraud == has_any_phrase(t, FRAUD_MARKERS)
        is_blocked == has_any_phrase(t, BLOCKED_MARKERS)
        is_urgent == has_urgency(t)
        priority == IF is_fraud THEN Max(analysis.priority_score, 9)
                    ELSE IF is_blocked \/ is_urgent THEN Max(analysis.priority_score, 8)
                    ELSE analysis.priority_score
        sentiment == IF strong_neg THEN "Negative"
                     ELSE IF strong_pos THEN "Positive"
                     ELSE IF weak_pos_only THEN "Neutral"
                     ELSE IF analysis.sentiment = "Negative" THEN "Neutral"
                     ELSE analysis.sentiment
    IN  IF analysis.ticket_type = SPAM THEN analysis
        ELSE [analysis EXCEPT !.priority_score = priority, !.sentiment = sentiment]

heuristic_fallback(description) ==
    LET text == description
        AnyIn(words) == \E w \in words : IsIn(w, text)
        kz_markers == {"salem", "kalai", "men", "magan", "zhasau", "otinish", "rakhmet"}
        en_markers == {"hello", "please", "want", "need", "help", "issue",
                       "thank you", "thanks"}
        language == IF AnyIn(kz_markers) THEN "KZ"
                    ELSE IF AnyIn(en_markers) THEN "ENG" ELSE "RU"
        sentiment == detect_sentiment_markers(description)
        kind ==
            IF AnyIn({"moshen", "fraud", "alayak", "vzlom", "ukrali", "spisali dengi"})
            THEN <<"Fraud", 9>>
            ELSE IF AnyIn({"zhalob", "complaint", "shagym"}) THEN <<"Complaint", 7>>
            ELSE IF AnyIn({"zablok", "scheta zablokirovany", "ne mogu voiti", "dostup"})
            THEN <<"Complaint", 8>>
            ELSE IF AnyIn({"smena dannykh", "izmenit", "dannye", "derekter"})
            THEN <<DATA_CHANGE, 5>>
            ELSE IF AnyIn({"prilozhen", "app", "kosymsha", "ne rabotaet", "oshibk"})
            THEN <<"AppMalfunction", 6>>
            ELSE IF AnyIn({"pretenz", "claim", "talap"}) THEN <<"Claim", 7>>
            ELSE <<CONSULTATION, 4>>
    IN  IF looks_like_spam(description)
        THEN AIAnalysis(SPAM, "Neutral", 1, "RU", "heuristic-fallback")
        ELSE AIAnalysis(kind[1], sentiment, kind[2], language, "heuristic-fallback")


(***************************************************************************)
(* analyze_ticket: one caller classifies one description.  The adapter     *)
(* keeps no state between calls; whether a provider is configured (SDK     *)
(* installed and OPENAI_API_KEY set) is fixed before the call.             *)
(***************************************************************************)
ClassifierCaller == 1

NoResponse ==
    [kind |-> "none", ticket_type |-> Missing, sentiment |-> Missing,
     priority_score |-> [kind |-> "missing", value |-> 0], language |-> Missing]

ClassifierFrame(description, configured) ==
    [description |-> description, configured |-> configured,
     attempt |-> 0, calls |-> 0, raw |-> NoResponse]

InitClassifier ==
    /\ offices = HubOffices
    /\ managers = << >>
    /\ tickets = [t \in TicketIds |-> Ticket(t, Domestic("Mass"))]
    /\ analytics = << >>
    /\ assignments = << >>
    /\ rr = EmptyFn
    /\ cache = EmptyFn
    /\ pc = [w \in Workers |-> "idle"]
    /\ queue = [w \in Workers |-> << >>]
    /\ \E description \in Descriptions, configured \in BOOLEAN :
          frame = [w \in Workers |->
                      IF w = ClassifierCaller
                      THEN ClassifierFrame(description, configured)
                      ELSE EmptyFrame]
    /\ tx = [w \in Workers |-> EmptyTx("none")]
    /\ results = [w \in Workers |-> << >>]

\* return analysis
ReturnAnalysis(w, analysis, newframe) ==
    /\ results' = [results EXCEPT ![w] = Append(@, analysis)]
    /\ frame' = [frame EXCEPT ![w] = newframe]
    /\ pc' = [pc EXCEPT ![w] = "returned"]
    /\ UNCHANGED <<db, queue, tx>>

\* From the call to the first request to the provider: the spam fast-path
\* and the two checks for a missing provider.
AnalyzeTicket(w) ==
    /\ pc[w] = "idle"
    /\ LET description == frame[w].description
       IN  IF looks_like_spam(description)
           THEN ReturnAnalysis(w, spam_result, frame[w])
           ELSE IF ~frame[w].configured
                THEN ReturnAnalysis(w,
                        post_adjust(heuristic_fallback(description), description),
                        frame[w])
                ELSE /\ pc' = [pc EXCEPT ![w] = "llm_call"]
                     /\ frame' = [frame EXCEPT ![w] = [@ EXCEPT !.attempt = 1]]
                     /\ UNCHANGED <<db, queue, tx, results>>

\* One turn of the retry loop: the request, json.loads, _map_to_analysis and
\* _post_adjust, or one of the three except clauses; after the last failed
\* attempt the heuristic fallback.
LLMCall(w) ==
    /\ pc[w] = "llm_call"
    /\ \E response \in LLMResponses :
        LET description == frame[w].description
            called == [frame[w] EXCEPT !.calls = @ + 1, !.raw = response]
        IN  IF Parses(response)
            THEN ReturnAnalysis(w, post_adjust(map_to_analysis(response), description),
                                called)
            ELSE IF frame[w].attempt < max_retries
                 THEN /\ frame' = [frame EXCEPT ![w] = [called EXCEPT !.attempt = @ + 1]]
                      /\ UNCHANGED <<db, pc, queue, tx, results>>
                 ELSE ReturnAnalysis(w,
                         post_adjust(heuristic_fallback(description), description),
                         called)

NextClassifier ==
    \/ AnalyzeTicket(ClassifierCaller)
    \/ LLMCall(ClassifierCaller)

SpecClassifier == InitClassifier /\ [][NextClassifier]_vars


AnalysisReturned(w) == pc[w] = "returned"

\* A field of the five the prompt asks for is not in the answer
\* (the summary, which decides nothing, is left out of the model).
HasMissingField(response) ==
    \/ response.ticket_type = Missing
    \/ response.sentiment = Missing
    \/ response.priority_score.kind = "missing"
    \/ response.language = Missing

\* An attempt that failed, as the retry loop is described: a transport
\* error, a malformed JSON or a missing field.
FailedAttempt(response) ==
    \/ ~Parses(response)
    \/ HasMissingField(response)

\* C19: analyze_ticket always returns an Analysis after at most max_retries
\* LLM calls; an Analysis that comes from the LLM is the first answer that
\* was not a failed attempt (transport error, malformed JSON, missing
\* field), and after max_retries failed attempts, or without a provider,
\* the Analysis returned is the rule-based one tagged heuristic-fallback.
C19_FirstParsedAnswerOrFallback ==
    \A w \in Workers :
        (AnalysisReturned(w) /\ ~looks_like_spam(frame[w].description))
            => LET analysis == results[w][Len(results[w])]
               IN  /\ Len(results[w]) = 1
                   /\ frame[w].calls <= max_retries
                   /\ analysis.llm_model \in {MODEL, "heuristic-fallback"}
                   /\ analysis.llm_model = MODEL
                        => frame[w].calls >= 1 /\ ~FailedAttempt(frame[w].raw)
                   /\ (~frame[w].configured
                        \/ (frame[w].calls = max_retries /\ FailedAttempt(frame[w].raw)))
                        => analysis.llm_model = "heuristic-fallback"

\* What the code does: an answer is refused only when json.loads or int()
\* raises; a field that is missing gets its default and the answer is
\* returned.
ReturnsFirstAnswerThatLoads ==
    \A w \in Workers :
        (AnalysisReturned(w) /\ ~looks_like_spam(frame[w].description))
            => LET analysis == results[w][Len(results[w])]
               IN  /\ Len(results[w]) = 1
                   /\ frame[w].calls <= max_retries
                   /\ analysis.llm_model = MODEL
                        <=> frame[w].calls >= 1 /\ Parses(frame[w].raw)
                   /\ analysis.llm_model # MODEL
                        => /\ analysis.llm_model = "heuristic-fallback"
                           /\ frame[w].calls = IF frame[w].configured
                                               THEN max_retries ELSE 0


\* C20: for a text with a fraud marker the priority of the Analysis
\* returned is at least 9, and for a text with a blocked-access or urgency
\* marker it is at least 8, whichever path produced the Analysis (spam
\* short-circuit, LLM, rule-based fallback).
C20_MarkersRaisePriority ==
    \A w \in Workers :
        AnalysisReturned(w)
            => LET analysis == results[w][Len(results[w])]
                   text == frame[w].description
               IN  /\ has_any_phrase(text, FRAUD_MARKERS)
                        => analysis.priority_score >= 9
                   /\ (has_any_phrase(text, BLOCKED_MARKERS) \/ has_urgency(text))
                        => analysis.priority_score >= 8

\* C20 (amended): for a text with a fraud marker the priority of the
\* Analysis returned is at least 9, and for a text with a blocked-access or
\* urgency marker at least 8, whenever the Analysis is not of type Spam; the
\* spam fast-path and an LLM answer of type Spam keep their priority.
C20_MarkersRaisePriorityUnlessSpam ==
    \A w \in Workers :
        (AnalysisReturned(w) /\ results[w][Len(results[w])].ticket_type # SPAM)
            => LET analysis == results[w][Len(results[w])]
                   text == frame[w].description
               IN  /\ has_any_phrase(text, FRAUD_MARKERS)
                        => analysis.priority_score >= 9
                   /\ (has_any_phrase(text, BLOCKED_MARKERS) \/ has_urgency(text))
                        => analysis.priority_score >= 8


\* The LLM answered priority 0 for a text with a fraud marker and the
\* Analysis returned has priority 9.
C20_Witness ==
    \E w \in Workers :
        /\ AnalysisReturned(w)
        /\ has_any_phrase(frame[w].description, FRAUD_MARKERS)
        /\ frame[w].raw.kind = "json"
        /\ frame[w].raw.priority_score = [kind |-> "int", value |-> 0]
        /\ results[w][Len(results[w])].llm_model = MODEL
        /\ results[w][Len(results[w])].priority_score = 9


\* max(1, min(10, v))
Clamped(v) == Max(1, Min(10, v))

\* C21: every Analysis returned has type, sentiment and language of their
\* enumerations and a priority_score in 1..10.  An unknown or missing value
\* of the LLM answer comes out as the default (Consultation, RU, and Neutral
\* as far as the text gives no strong evidence), a priority out of range
\* comes out clamped, and the post-adjustment only raises a priority, never
\* beyond 10.
C21_EnumerationsAndPriorityRange ==
    \A w \in Workers :
        AnalysisReturned(w)
            => LET analysis == results[w][Len(results[w])]
                   raw == frame[w].raw
                   text == frame[w].description
               IN  /\ analysis.ticket_type \in TicketType
                   /\ analysis.sentiment \in Sentiment
                   /\ analysis.language \in Language
                   /\ analysis.priority_score \in 1..10
                   /\ analysis.llm_model = MODEL
                        => /\ raw.ticket_type \notin TicketType
                                => analysis.ticket_type = CONSULTATION
                           /\ raw.language \notin Language
                                => analysis.language = "RU"
                           /\ (/\ raw.sentiment \notin Sentiment
                               /\ ~has_strong_negative_evidence(text)
                               /\ ~has_any_phrase(text, STRONG_POSITIVE))
                                => analysis.sentiment = "Neutral"
                           /\ raw.priority_score.kind = "int"
                                => analysis.priority_score
                                     >= Clamped(raw.priority_score.value)
                           /\ (/\ raw.priority_score.kind = "int"
                               /\ ~has_any_phrase(text, FRAUD_MARKERS)
                               /\ ~has_any_phrase(text, BLOCKED_MARKERS)
                               /\ ~has_urgency(text))
                                => analysis.priority_score
                                     = Clamped(raw.priority_score.value)

\* The LLM answered an unknown type, no language and priority 11 for a text
\* with a fraud marker: Consultation, RU and priority 10 are returned.
C21_Witness ==
    \E w \in Workers :
        /\ AnalysisReturned(w)
        /\ has_any_phrase(frame[w].description, FRAUD_MARKERS)
        /\ frame[w].raw.ticket_type = "Unknown"
        /\ frame[w].raw.language = Missing
        /\ frame[w].raw.priority_score = [kind |-> "int", value |-> 11]
        /\ results[w][Len(results[w])].ticket_type = CONSULTATION
        /\ results[w][Len(results[w])].language = "RU"
        /\ results[w][Len(results[w])].priority_score = 10


(***************************************************************************)
(* The domain policies called on their own: one caller makes one call of   *)
(* a pure policy with arguments of its choice, and the frame keeps the     *)
(* call, its arguments and the value returned ("error" for a ValueError).  *)
(***************************************************************************)
PolicyCaller == ClassifierCaller

InitPolicies ==
    /\ offices = HubOffices
    /\ managers = << >>
    /\ tickets = [t \in TicketIds |-> Ticket(t, Domestic("Mass"))]
    /\ analytics = << >>
    /\ assignments = << >>
    /\ rr = EmptyFn
    /\ cache = EmptyFn
    /\ pc = [w \in Workers |-> "idle"]
    /\ queue = [w \in Workers |-> << >>]
    /\ frame = [w \in Workers |-> EmptyFrame]
    /\ tx = [w \in Workers |-> EmptyTx("none")]
    /\ results = [w \in Workers |-> << >>]

PolicyCall(w, call, args, value) ==
    /\ pc[w] = "idle"
    /\ pc' = [pc EXCEPT ![w] = "returned"]
    /\ frame' = [frame EXCEPT ![w] = [call |-> call, args |-> args, value |-> value]]
    /\ UNCHANGED <<db, queue, tx, results>>

DetermineRequiredSkills(w) ==
    /\ pc[w] = "idle"
    /\ \E segment \in Segment, ticket_type \in TicketType, language \in Language :
        PolicyCall(w, "determine_required_skills",
                   [segment |-> segment, ticket_type |-> ticket_type,
                    language |-> language],
                   determine_required_skills(segment, ticket_type, language))

PolicyReturned(w, call) == pc[w] = "returned" /\ frame[w].call = call

\* C22: determine_required_skills is additive.  For every segment, type and
\* language the skills required are VIP exactly for the segments VIP and
\* Priority, KZ exactly for the language KZ, ENG exactly for the language
\* ENG, and no other skill; the minimum position is Chief Specialist for
\* the type DataChange and none for every other type.
C22_RequiredSkillsAdditive ==
    \A w \in Workers :
        PolicyReturned(w, "determine_required_skills")
            => LET a == frame[w].args
                   r == frame[w].value
               IN  /\ "VIP" \in r.required_skills <=> a.segment \in {"VIP", "Priority"}
                   /\ "KZ" \in r.required_skills <=> a.language = "KZ"
                   /\ "ENG" \in r.required_skills <=> a.language = "ENG"
                   /\ r.required_skills \subseteq {"VIP", "KZ", "ENG"}
                   /\ r.min_position = CHIEF_SPECIALIST <=> a.ticket_type = DATA_CHANGE
                   /\ r.min_position \in {CHIEF_SPECIALIST, None}

\* A Priority ticket of type DataChange in Kazakh requires {VIP, KZ} and a
\* Chief Specialist.
C22_Witness ==
    \E w \in Workers :
        /\ PolicyReturned(w, "determine_required_skills")
        /\ frame[w].args = [segment |-> "Priority", ticket_type |-> DATA_CHANGE,
                            language |-> "KZ"]
        /\ frame[w].value = [required_skills |-> {"VIP", "KZ"},
                             min_position |-> CHIEF_SPECIALIST]



(***************************************************************************)
(* pick_next with both parts of its result, and the loop of the tests      *)
(* that feeds the counter returned into the next call.                     *)
(***************************************************************************)
MaxCandidates == 3
MaxLoad == 1

\* pick_next(candidates, counter) -> (chosen, counter + 1), or ValueError
PickNext(candidates, counter) ==
    IF candidates = << >>
    THEN [error |-> "Cannot pick from an empty candidate list"]
    ELSE [error |-> None, chosen |-> pick_next(candidates, counter),
          new_counter |-> counter + 1]

\* Candidate lists: managers with distinct ids, in any order, with any loads.
CandidateLists ==
    UNION {{s \in [1..n -> [id : 1..MaxCandidates, current_load : 0..MaxLoad]] :
                \A i, j \in 1..n : i # j => s[i].id # s[j].id} :
           n \in 0..MaxCandidates}

\* candidates = [...]; counter = 0
PickLoopStart(w) ==
    /\ pc[w] = "idle"
    /\ \E candidates \in CandidateLists \ {<< >>} :
          frame' = [frame EXCEPT ![w] =
                      [call |-> "pick_next loop", args |-> candidates,
                       value |-> [counter |-> 0, picks |-> << >>]]]
    /\ pc' = [pc EXCEPT ![w] = "picking"]
    /\ UNCHANGED <<db, queue, tx, results>>

\* for _ in range(2 * N): chosen, counter = pick_next(candidates, counter)
PickLoopStep(w) ==
    /\ pc[w] = "picking"
    /\ LET f == frame[w]
           r == PickNext(f.args, f.value.counter)
           picks == Append(f.value.picks, r.chosen)
       IN  /\ frame' = [frame EXCEPT ![w] =
                          [f EXCEPT !.value = [counter |-> r.new_counter,
                                               picks |-> picks]]]
           /\ pc' = [pc EXCEPT ![w] =
                        IF Len(picks) = 2 * Len(f.args) THEN "returned" ELSE "picking"]
    /\ UNCHANGED <<db, queue, tx, results>>

\* (current_load, id) of a comes before that of b
LoadIdBefore(a, b) ==
    \/ a.current_load < b.current_load
    \/ a.current_load = b.current_load /\ a.id < b.id

\* C23: with a fixed candidate list of N managers and the counter started at
\* 0 and fed back, the picks go through the candidates in (current_load
\* ascending, id ascending) order and start over after N picks, so that 2*N
\* picks take every candidate exactly twice.
C23_RoundRobinCycles ==
    \A w \in Workers :
        (pc[w] \in {"picking", "returned"} /\ frame[w].call = "pick_next loop")
            => LET candidates == frame[w].args
                   N == Len(candidates)
                   picks == frame[w].value.picks
               IN  /\ frame[w].value.counter = Len(picks)
                   /\ \A i \in DOMAIN picks : picks[i] \in Range(candidates)
                   /\ \A i, j \in DOMAIN picks :
                         (i < j /\ j <= N) => LoadIdBefore(picks[i], picks[j])
                   /\ \A i \in DOMAIN picks : i > N => picks[i] = picks[i - N]
                   /\ pc[w] = "returned"
                        => /\ Len(picks) = 2 * N
                           /\ \A c \in Range(candidates) :
                                 Cardinality({i \in DOMAIN picks : picks[i] = c}) = 2

\* Three candidates given as ids 3, 1, 2 with loads 1, 1, 0 were picked in
\* the order 2, 1, 3, 2, 1, 3.
C23_Witness ==
    \E w \in Workers :
        /\ pc[w] = "returned"
        /\ frame[w].call = "pick_next loop"
        /\ frame[w].args = <<[id |-> 3, current_load |-> 1],
                             [id |-> 1, current_load |-> 1],
                             [id |-> 2, current_load |-> 0]>>
        /\ [i \in 1..6 |-> frame[w].value.picks[i].id] = <<2, 1, 3, 2, 1, 3>>



(***************************************************************************)
(* The office policies called on their own.                                *)
(***************************************************************************)
MaxOffices == 3

\* Office lists: offices with distinct ids, in any order.
OfficeLists(names, locations) ==
    UNION {{s \in [1..n -> [id : 1..MaxOffices, name : names, location : locations]] :
                \A i, j \in 1..n : i # j => s[i].id # s[j].id} :
           n \in 0..MaxOffices}

SelectNearestOffice(w) ==
    /\ pc[w] = "idle"
    /\ \E client_location \in Points, offs \in OfficeLists({"Aktau"}, Points \cup {NoLoc}) :
        PolicyCall(w, "select_nearest_office",
                   [client_location |-> client_location, offices |-> offs],
                   select_nearest_office(client_location, offs))

\* The offices of the list at the least distance from the client.
NearestOffices(client_location, offs) ==
    {o \in Range(offs) :
        /\ o.location # NoLoc
        /\ \A p \in Range(offs) :
              p.location # NoLoc
                => haversine_km(client_location, o.location)
                     <= haversine_km(client_location, p.location)}

\* C24: select_nearest_office returns the office at the least distance among
\* the offices with coordinates, and of several offices at that distance the
\* one with the smallest id, whatever the order of the office list.
C24_NearestOfficeSmallestId ==
    \A w \in Workers :
        (PolicyReturned(w, "select_nearest_office") /\ frame[w].value.error = None)
            => LET nearest == NearestOffices(frame[w].args.client_location,
                                             frame[w].args.offices)
               IN  /\ frame[w].value.office \in nearest
                   /\ \A o \in nearest : frame[w].value.office.id <= o.id

\* What the code does: of several offices at the least distance, min() keeps
\* the one that comes first in the list.
NearestOfficeFirstInList ==
    \A w \in Workers :
        (PolicyReturned(w, "select_nearest_office") /\ frame[w].value.error = None)
            => LET offs == frame[w].args.offices
                   nearest == NearestOffices(frame[w].args.client_location, offs)
                   first == CHOOSE i \in DOMAIN offs :
                               /\ offs[i] \in nearest
                               /\ \A j \in DOMAIN offs : offs[j] \in nearest => i <= j
               IN  frame[w].value.office = offs[first]



SelectFallbackOffice(w) ==
    /\ pc[w] = "idle"
    /\ \E counter \in 0..(2 * MaxOffices),
       offs \in OfficeLists({ASTANA_HUB, ALMATY_HUB, "Aktau"}, {NoLoc}) :
        PolicyCall(w, "select_fallback_office",
                   [counter |-> counter, offices |-> offs],
                   select_fallback_office(counter, offs))

C26_MissingHubsRaise ==
    \A w \in Workers :
        (/\ PolicyReturned(w, "select_fallback_office")
         /\ frame[w].args.offices # << >>
         /\ ~HasNamed(frame[w].args.offices, ASTANA_HUB)
         /\ ~HasNamed(frame[w].args.offices, ALMATY_HUB))
            => frame[w].value.error = "Hub offices not found"



(***************************************************************************)
(* NominatimAdapter.geocode.  One adapter, and so one cache, serves every  *)
(* request (dependencies.py); each worker makes NumGeocodes calls.  An     *)
(* address is its cache key (trimmed, lowercased) and the spelling it came *)
(* in; results[w] lists, for every call of worker w that returned, the     *)
(* key, the point returned and whether the API was called.                 *)
(***************************************************************************)
NumGeocodes == 3

GeoAddresses ==
    [key : {"almaty", "aul, mangistauskaya", "nowhere"}, spelling : {"lower", " Padded "}]

\* address.strip().lower()
cache_key(address) == address.key

\* CITY_CENTROIDS / REGION_CENTROIDS: the first entry whose name is in the
\* lowered address
city_centroid_lookup(address) == IF address.key = "almaty" THEN 0 ELSE NoLoc

region_centroid_lookup(address) ==
    IF address.key = "aul, mangistauskaya" THEN MaxCoord ELSE NoLoc

\* geocode up to the request to the API: the cache check
GeocodeCall(w) ==
    /\ pc[w] = "idle"
    /\ Len(results[w]) < NumGeocodes
    /\ \E address \in GeoAddresses :
        IF cache_key(address) \in DOMAIN cache
        THEN /\ results' = [results EXCEPT ![w] = Append(@,
                              [key |-> cache_key(address),
                               point |-> cache[cache_key(address)],
                               api_called |-> FALSE])]
             /\ UNCHANGED <<pc, frame>>
        ELSE /\ pc' = [pc EXCEPT ![w] = "nominatim"]
             /\ frame' = [frame EXCEPT ![w] = [address |-> address]]
             /\ UNCHANGED results
    /\ UNCHANGED <<offices, tickets, managers, analytics, assignments, rr, cache,
                   queue, tx>>

\* _nominatim_lookup answers (a point, or None for no result or an error),
\* then the centroid tiers, the cache write and the return
NominatimLookup(w) ==
    /\ pc[w] = "nominatim"
    /\ \E answer \in Points \cup {NoLoc} :
        LET address == frame[w].address
            point == IF answer # NoLoc THEN answer
                     ELSE IF city_centroid_lookup(address) # NoLoc
                          THEN city_centroid_lookup(address)
                          ELSE region_centroid_lookup(address)
        IN  /\ cache' = (cache_key(address) :> point) @@ cache
            /\ results' = [results EXCEPT ![w] = Append(@,
                              [key |-> cache_key(address), point |-> point,
                               api_called |-> TRUE])]
    /\ pc' = [pc EXCEPT ![w] = "idle"]
    /\ frame' = [frame EXCEPT ![w] = EmptyFrame]
    /\ UNCHANGED <<offices, tickets, managers, analytics, assignments, rr, queue, tx>>

NextGeocoder ==
    \/ \E w \in Workers : GeocodeCall(w)
    \/ \E w \in Workers : NominatimLookup(w)

SpecGeocoder == InitPolicies /\ [][NextGeocoder]_vars

\* The calls of a key that were made after a call of the key had returned
LaterCalls(key) ==
    {r \in UNION {Range(results[w]) : w \in Workers} : r.key = key /\ ~r.api_called}

\* C27: geocode memoizes by the trimmed, lowercased address.  A call made
\* after a call of the same key has returned does not call the API and
\* returns what the cache holds; all such later calls of a key return the
\* same result.
C27_GeocodeMemoizes ==
    \A key \in {a.key : a \in GeoAddresses} :
        \A r1, r2 \in LaterCalls(key) : r1.point = r2.point

\* What holds of the code: a call that finds its key in the cache returns
\* the cached value without calling the API, a call that misses writes its
\* result to the cache, and on a miss the tiers are tried in the order API,
\* city centroid, region centroid.
GeocodeUsesCache ==
    [][\A w \in Workers :
          Len(results'[w]) = Len(results[w]) + 1
            => LET r == results'[w][Len(results'[w])]
               IN  /\ r.api_called <=> pc[w] = "nominatim"
                   /\ ~r.api_called => r.key \in DOMAIN cache /\ r.point = cache[r.key]
                   /\ r.api_called => cache'[r.key] = r.point
                   /\ cache'[r.key] = r.point]_vars


(***************************************************************************)
(* Ticket.build_address_string.  Address fields are None or text; the      *)
(* texts below are the empty one, a blank one and names with blanks around *)
(* them, and strip is str.strip on these texts.                            *)
(***************************************************************************)
strip(s) ==
    CASE s = " " -> ""
      [] s = " Rossiya" -> "Rossiya"
      [] s = "Almatinskaya " -> "Almatinskaya"
      [] s = " Abaya " -> "Abaya"
      [] s = "10 " -> "10"
      [] OTHER -> s

\* sep.join(parts)
RECURSIVE join(_, _)
join(sep, parts) ==
    IF parts = << >> THEN ""
    ELSE IF Len(parts) = 1 THEN parts[1]
    ELSE parts[1] \o sep \o join(sep, Tail(parts))

\* [p.strip() for p in parts if p and p.strip()]
RECURSIVE non_empty(_)
non_empty(parts) ==
    IF parts = << >> THEN << >>
    ELSE LET p == parts[1]
         IN  IF p # None /\ p # "" /\ strip(p) # ""
             THEN <<strip(p)>> \o non_empty(Tail(parts))
             ELSE non_empty(Tail(parts))

\* Street and building as two parts of the address
build_address_street_apart(country, region, city, street, building) ==
    LET parts == <<IF country = None \/ country = "" THEN "Kazakhstan" ELSE country,
                   region, city, street, building>>
    IN  IF Len(non_empty(parts)) > 1 THEN join(", ", non_empty(parts)) ELSE None

build_address_string(country, region, city, street, building) ==
    LET joined == join(" ", non_empty(<<street, building>>))
        street_part == IF joined = "" THEN None ELSE joined
        parts == <<IF country = None \/ country = "" THEN "Kazakhstan" ELSE country,
                   region, city, street_part>>
    IN  IF Len(non_empty(parts)) > 1 THEN join(", ", non_empty(parts)) ELSE None

BuildAddressString(w) ==
    /\ pc[w] = "idle"
    /\ \E country \in {None, "", " ", " Rossiya"}, region \in {None, " ", "Almatinskaya "},
       city \in {None, "", "Almaty"}, street \in {None, " ", " Abaya "},
       building \in {None, "", "10 "} :
        PolicyCall(w, "build_address_string",
                   [country |-> country, region |-> region, city |-> city,
                    street |-> street, building |-> building],
                   build_address_string(country, region, city, street, building))

\* A field that holds text other than blanks
HasText(p) == p \notin {None, "", " "}

MeetsRequirement(w) ==
    {i \in DOMAIN managers :
        /\ Requirement(frame[w]).required_skills \subseteq managers[i].skills
        /\ (Requirement(frame[w]).min_position = CHIEF_SPECIALIST
                => managers[i].position = CHIEF_SPECIALIST)}

InSelectedOffice(w) ==
    {i \in DOMAIN managers : managers[i].office_id = frame[w].office_sel.office_id}

\* The first non-empty of the three tiers, as ids
FirstTier(w) ==
    IF MeetsRequirement(w) \cap InSelectedOffice(w) # {}
    THEN MeetsRequirement(w) \cap InSelectedOffice(w)
    ELSE IF MeetsRequirement(w) # {} THEN MeetsRequirement(w)
    ELSE IF Requirement(frame[w]).min_position = CHIEF_SPECIALIST
         THEN {i \in DOMAIN managers : managers[i].position = CHIEF_SPECIALIST}
         ELSE DOMAIN managers

\* C29: the eligible set is the first non-empty of three tiers: the
\* managers of the selected office who meet the full requirement, then the
\* managers of any office who meet it, then, skills dropped, all Chief
\* Specialists if the ticket requires a Chief and all managers otherwise.
\* The shortlist taken from the eligible set holds managers of that tier
\* only, two of them when the tier has two, and a manager of another
\* office or a manager short of the requirement is chosen only when the
\* tiers before are empty.
C29_FirstNonEmptyTier ==
    \A w \in Workers :
        /\ pc[w] \in {"rr_select", "rr_flush", "save", "load"}
            => /\ \A i \in DOMAIN frame[w].top2 : frame[w].top2[i].id \in FirstTier(w)
               /\ Len(frame[w].top2) = IF Cardinality(FirstTier(w)) < 2
                                       THEN Cardinality(FirstTier(w)) ELSE 2
               /\ FirstTier(w) # {}
        /\ pc[w] \in {"save", "load"}
            => /\ frame[w].chosen \notin InSelectedOffice(w)
                    => MeetsRequirement(w) \cap InSelectedOffice(w) = {}
               /\ frame[w].chosen \notin MeetsRequirement(w) => MeetsRequirement(w) = {}

\* One execution took its shortlist from another office than the selected
\* one, and another execution from the tier without skills.
C29_Witness ==
    \E w1, w2 \in Workers :
        /\ pc[w1] \in {"rr_select", "rr_flush", "save", "load"}
        /\ MeetsRequirement(w1) # {}
        /\ MeetsRequirement(w1) \cap InSelectedOffice(w1) = {}
        /\ pc[w2] \in {"rr_select", "rr_flush", "save", "load"}
        /\ MeetsRequirement(w2) = {}
        /\ Requirement(frame[w2]).required_skills # {}



\* The load of manager i as execution w reads it
LoadRead(w, i) == VisibleManager(w, i).current_load

\* The ids of a shortlist
Shortlisted(top2) == {top2[k].id : k \in DOMAIN top2}

\* C30: the manager chosen by an execution is one of the two eligible
\* managers that come first in (current_load ascending, id ascending) order
\* among the eligible set as the execution read it: the shortlist taken by
\* the filter step holds the managers of the eligible tier that no other
\* manager of the tier precedes, two of them when the tier has two, with the
\* loads as read, and the pick step chooses from the shortlist; a shortlist
\* of one manager yields that manager for every counter value.
C30_ChosenAmongFirstTwo ==
    [][\A w \in Workers :
        /\ (pc[w] = "filter" /\ pc'[w] = "rr_select")
            => LET T == Shortlisted(frame'[w].top2)
               IN  /\ T \subseteq FirstTier(w)
                   /\ Cardinality(T) = Len(frame'[w].top2)
                   /\ Len(frame'[w].top2) = IF Cardinality(FirstTier(w)) < 2
                                            THEN Cardinality(FirstTier(w)) ELSE 2
                   /\ \A k \in DOMAIN frame'[w].top2 :
                         frame'[w].top2[k].current_load = LoadRead(w, frame'[w].top2[k].id)
                   /\ \A i \in T, j \in FirstTier(w) \ T :
                         \/ LoadRead(w, i) < LoadRead(w, j)
                         \/ LoadRead(w, i) = LoadRead(w, j) /\ i < j
        /\ (pc[w] = "rr_flush" /\ pc'[w] = "save")
            => /\ frame'[w].chosen \in Shortlisted(frame[w].top2)
               /\ frame'[w].top2 = frame[w].top2
        /\ (pc[w] = "rr_flush" /\ Len(frame[w].top2) = 1)
            => \A counter \in 0 .. 3 :
                  pick_next(frame[w].top2, counter).id = frame[w].top2[1].id
        /\ (pc[w] \in {"save", "load"} /\ pc'[w] \in {"save", "load"})
            => frame'[w].chosen = frame[w].chosen]_vars

\* An execution chose from a shortlist of two that leaves out a manager
\* with a smaller id and a larger load.
C30_Witness ==
    \E w \in Workers :
        /\ pc[w] = "save"
        /\ Len(frame[w].top2) = 2
        /\ frame[w].chosen \in Shortlisted(frame[w].top2)
        /\ \E j \in FirstTier(w) \ Shortlisted(frame[w].top2) :
              /\ j < frame[w].chosen
              /\ LoadRead(w, j) > frame[w].top2[2].current_load



\* The labels of one execution in the order the code passes them
ComesFrom(label) ==
    CASE label = "geocode" -> {"analyze"}
      [] label = "office" -> {"geocode"}
      [] label = "fallback_flush" -> {"office"}
      [] label = "filter" -> {"office", "fallback_flush"}
      [] label = "rr_select" -> {"filter"}
      [] label = "rr_flush" -> {"rr_select"}
      [] label = "save" -> {"rr_flush"}
      [] label = "load" -> {"save"}
      [] OTHER -> {}

\* The counters as worker w has written them, one advanced by 1
AdvancedBy1(w, key) == (key :> Counter(tx[w].rr @@ rr, key) + 1) @@ tx[w].rr

\* The dimensions of a queue: office, segment, type and language of a ticket
QueueDimensions ==
    [office : DOMAIN offices, segment : Segment, ticket_type : TicketType,
     language : Language]

KeyOfDimensions(d) ==
    RRKey(d.office,
          determine_required_skills(d.segment, d.ticket_type, d.language),
          [ticket_type |-> d.ticket_type, language |-> d.language])

\* C31: an execution that writes an Assignment advances exactly one
\* per-queue counter, the one keyed by (office, VIP, language, type, Chief),
\* by exactly 1, and the fallback counter by exactly 1 if and only if the
\* ticket had no coordinates at office selection.  Step by step: the labels
\* of an execution are passed in order, each once; the fallback flush is
\* entered exactly for a ticket without coordinates and adds 1 to
\* office-fallback-50-50 only; the flush before the save adds 1 to the key
\* of the ticket's queue only; no other step of an execution writes a
\* counter; and a ticket has the key of the execution only if it agrees with
\* the execution's ticket on office, VIP flag, language, type and Chief flag.
C31_OneQueueCounterPerAssignment ==
    [][\A w \in Workers :
            /\ (pc'[w] # pc[w] /\ ComesFrom(pc'[w]) # {}) => pc[w] \in ComesFrom(pc'[w])
            /\ (pc[w] = "office" /\ pc'[w] \in {"fallback_flush", "filter"})
                => (pc'[w] = "fallback_flush"
                        <=> frame[w].ticket.client_location = NoLoc)
            /\ (pc[w] = "fallback_flush" /\ pc'[w] = "filter")
                => tx'[w].rr = AdvancedBy1(w, FallbackKey)
            /\ (pc[w] = "rr_flush" /\ pc'[w] = "save")
                => /\ tx'[w].rr = AdvancedBy1(w, frame[w].rr_key)
                   /\ frame[w].rr_key
                        = RRKey(frame[w].office_sel.office_id, Requirement(frame[w]),
                                frame[w].analysis)
                   /\ frame[w].rr_key # FallbackKey
                   /\ \A d \in QueueDimensions :
                        KeyOfDimensions(d) = frame[w].rr_key
                            => /\ d.office = frame[w].office_sel.office_id
                               /\ d.language = frame[w].analysis.language
                               /\ d.ticket_type = frame[w].analysis.ticket_type
                               /\ (d.segment \in {"VIP", "Priority"})
                                    <=> (frame[w].ticket.segment \in {"VIP", "Priority"})
            /\ (pc[w] \notin {"fallback_flush", "rr_flush", "commit"}
                    /\ pc'[w] # pc[w] /\ ComesFrom(pc'[w]) # {})
                => tx'[w].rr = tx[w].rr
            /\ (pc[w] = "load" /\ Len(results'[w]) = Len(results[w]) + 1
                    /\ results'[w][Len(results'[w])].error = None)
                => tx'[w].rr = tx[w].rr]_vars

\* An execution without coordinates has written its Assignment after both
\* counters, and the queue's counter had been advanced before.
C31_Witness ==
    \E w \in Workers :
        /\ pc[w] = "load"
        /\ frame[w].office_sel.fallback_used
        /\ FallbackKey \in DOMAIN tx[w].rr
        /\ frame[w].rr_key \in DOMAIN rr
        /\ tx[w].rr[frame[w].rr_key] = rr[frame[w].rr_key] + 1



(***************************************************************************)
(* Requests served one after another: one worker, NumQueued tickets of the *)
(* Mass segment, the two hubs, and two managers without skills in the      *)
(* Astana office.  The tickets either all carry coordinates next to the    *)
(* Astana office or all have none (no address, an address abroad, a       *)
(* domestic address and the domestic country alone, in turn).  With        *)
(* coordinates, the managers start at                                       *)
(* loads up to MaxLoad, one of them at 0, and the counter of the           *)
(* Consultation/RU queue of the Astana office at no row (an even value) or *)
(* at 1; without, at load 0 and no counter.                                *)
(***************************************************************************)
NumQueued == 4

QueuedIds == 1..NumQueued

TicketAt(id, location) ==
    [Ticket(id, Domestic("Mass")) EXCEPT !.client_location = location,
                                         !.geo_status = "resolved"]

\* The kinds the tickets without coordinates take in turn
QueuedKinds ==
    <<Unknown("Mass"), Abroad("Mass"), Domestic("Mass"),
      TicketKind("Mass", "domestic", FALSE, TRUE)>>

InitQueue ==
    /\ offices = HubOffices
    /\ \E known \in BOOLEAN, l1, l2 \in 0..MaxLoad, c \in {NoRow, 1} :
          /\ l1 = 0 \/ l2 = 0
          /\ ~known => (l1 = 0 /\ l2 = 0 /\ c = NoRow)
          /\ managers = <<Manager(1, SPECIALIST, 1, {}, l1),
                          Manager(2, SPECIALIST, 1, {}, l2)>>
          /\ tickets = [t \in QueuedIds |->
                          IF known THEN TicketAt(t, 0)
                          ELSE Ticket(t, QueuedKinds[((t - 1) % Len(QueuedKinds)) + 1])]
          /\ rr = IF c = NoRow THEN EmptyFn ELSE (S6Queue :> c)
    /\ analytics = << >>
    /\ assignments = << >>
    /\ cache = EmptyFn
    /\ pc = [w \in Workers |-> "idle"]
    /\ queue = [w \in Workers |-> << >>]
    /\ frame = [w \in Workers |-> EmptyFrame]
    /\ tx = [w \in Workers |-> EmptyTx("none")]
    /\ results = [w \in Workers |-> << >>]

NextQueue ==
    \E w \in {1} :
        \/ \E t \in QueuedIds : ProcessSingle(w, t)
        \/ ProcessAll(w)
        \/ Analyze(w)
        \/ Geocode(w)
        \/ SelectOffice(w)
        \/ FallbackFlush(w)
        \/ FilterManagers(w)
        \/ RRSelect(w)
        \/ RRFlush(w)
        \/ SaveAssignment(w)
        \/ IncrementLoad(w)
        \/ Commit(w)
        \/ Cancel(w)

SpecQueue == InitQueue /\ [][NextQueue]_vars

\* The fallback Assignments recorded for an office
FallbackAssignments(office_id) ==
    Cardinality({i \in DOMAIN assignments :
                    assignments[i].fallback_used /\ assignments[i].office_id = office_id})

\* C32: with both hubs present and tickets processed one after another, the
\* numbers of fallback Assignments recorded for the Astana hub and for the
\* Almaty hub differ by at most 1.
C32_FallbackSplitsEvenly ==
    /\ FallbackAssignments(1) - FallbackAssignments(2) <= 1
    /\ FallbackAssignments(2) - FallbackAssignments(1) <= 1



\* pick_next called with any candidate list, the empty one included, and a
\* small or a large counter; the candidate list is read again after the call
PickNextCall(w) ==
    /\ pc[w] = "idle"
    /\ \E candidates \in CandidateLists, counter \in 0..(2 * MaxCandidates) \cup {1000} :
          PolicyCall(w, "pick_next",
                     [candidates |-> candidates, counter |-> counter],
                     [result |-> PickNext(candidates, counter),
                      candidates |-> candidates])

\* C33: on a non-empty candidate list pick_next returns the candidate at
\* index (counter mod number of candidates) of the list sorted by
\* (current_load, id), whatever the order of the input and however large the
\* counter, with counter + 1, and leaves the candidates as they were; on an
\* empty list it raises ValueError.
C33_PickNextBySortedIndex ==
    \A w \in Workers :
        PolicyReturned(w, "pick_next")
            => LET candidates == frame[w].args.candidates
                   counter == frame[w].args.counter
                   r == frame[w].value.result
               IN  /\ r.error # None <=> candidates = << >>
                   /\ frame[w].value.candidates = candidates
                   /\ candidates # << >>
                        => /\ r.chosen \in Range(candidates)
                           /\ Cardinality({c \in Range(candidates) :
                                              LoadIdBefore(c, r.chosen)})
                                = counter % Len(candidates)
                           /\ r.new_counter = counter + 1

\* Candidates 3, 1, 2 with loads 0, 1, 0 and counter 1000: the pick is the
\* candidate sorted second, id 3.
C33_Witness ==
    \E w \in Workers :
        /\ PolicyReturned(w, "pick_next")
        /\ frame[w].args.candidates = <<[id |-> 3, current_load |-> 0],
                                        [id |-> 1, current_load |-> 1],
                                        [id |-> 2, current_load |-> 0]>>
        /\ frame[w].args.counter = 1000
        /\ frame[w].value.result.chosen.id = 3
        /\ frame[w].value.result.new_counter = 1001



\* No office of the database has coordinates
NoOfficeLocated == \A i \in DOMAIN offices : offices[i].location = NoLoc

\* C34: select_nearest_office ignores offices without coordinates and
\* raises when no office has coordinates.  In the pipeline, the office step
\* of a ticket with coordinates selects an office that has coordinates, at
\* the least distance; when no office has any, the execution ends there with
\* an error result naming no manager, office or distance, the transaction
\* is left as it was, holding the ticket's Analysis, no Assignment of the
\* ticket and no new counter value, execute returns (the next ticket starts
\* or the route commits), and the commit stores the Analysis and no
\* Assignment.
C34_NoLocatedOfficeIsAnError ==
    [][\A w \in Workers :
        /\ (/\ pc[w] = "office"
            /\ frame[w].ticket.client_location # NoLoc
            /\ pc'[w] \notin {"office", "idle"})
            => IF NoOfficeLocated
               THEN /\ results'[w] = Append(results[w],
                          [ticket_id |-> frame[w].ticket.id, assigned_manager |-> NoId,
                           assigned_office |-> NoId, distance_km |-> NoDistance,
                           fallback_used |-> FALSE,
                           error |-> "No offices with known locations available"])
                    /\ tx'[w] = tx[w]
                    /\ tx[w].status = "active"
                    /\ HasAnalysis(tx[w].analytics, frame[w].ticket.id)
                    /\ ~HasAssignment(tx[w].assignments, frame[w].ticket.id)
                    /\ queue'[w] = Tail(queue[w])
                    /\ pc'[w] \in {"analyze", "commit"}
                    /\ UNCHANGED db
               ELSE /\ pc'[w] = "filter"
                    /\ results'[w] = results[w]
                    /\ \E i \in DOMAIN offices :
                          /\ offices[i].id = frame'[w].office_sel.office_id
                          /\ offices[i].location # NoLoc
                          /\ \A j \in DOMAIN offices :
                                offices[j].location # NoLoc
                                    => haversine_km(frame[w].ticket.client_location,
                                                    offices[i].location)
                                        <= haversine_km(frame[w].ticket.client_location,
                                                        offices[j].location)
        /\ (pc[w] = "commit" /\ pc'[w] = "idle" /\ tx[w].status = "active")
            => \A i \in DOMAIN results[w] :
                  results[w][i].error = "No offices with known locations available"
                      => /\ HasAnalysis(analytics', results[w][i].ticket_id)
                         /\ ~HasAssignment(assignments', results[w][i].ticket_id)]_vars

\* A ticket that was geocoded ended with the error of the office step, and
\* its Analysis is stored.
C34_Witness ==
    /\ NoOfficeLocated
    /\ \E t \in TicketIds :
          /\ HasAnalysis(analytics, t)
          /\ ~HasAssignment(assignments, t)
          /\ tickets[t].client_location # NoLoc
          /\ tickets[t].geo_status = "resolved"



\* C35: for a non-spam ticket without coordinates step 2 sets geo_status
\* and writes the ticket once: a domestic ticket with an address string is
\* sent to the geocoder, a hit gives coordinates and resolved, a miss gives
\* failed; a ticket that is not domestic and has a country gives abroad;
\* every other ticket gives failed; no other step of the execution writes
\* the ticket.  A ticket that already has coordinates is not sent to the
\* geocoder, is not written, and keeps its coordinates and its geo_status.
C35_GeoStatusOfStepTwo ==
    [][\A w \in Workers :
        /\ (pc[w] = "geocode" /\ pc'[w] = "office")
            => LET before == frame[w].ticket
                   after == frame'[w].ticket
                   domestic == before.country = "domestic"
                                 \/ (before.country = "none" /\ before.kz_place)
               IN  IF before.client_location # NoLoc
                   THEN /\ after = before
                        /\ tx'[w] = tx[w]
                        /\ ~frame'[w].geocoded
                   ELSE /\ tx'[w] = [tx[w] EXCEPT !.tickets =
                                (before.id :> [client_location |-> after.client_location,
                                               geo_status |-> after.geo_status]) @@ @]
                        /\ after = [before EXCEPT
                                      !.client_location = after.client_location,
                                      !.geo_status = after.geo_status]
                        /\ frame'[w].geocoded <=> (domestic /\ before.has_address)
                        /\ IF domestic /\ before.has_address
                           THEN \/ after.client_location # NoLoc
                                      /\ after.geo_status = "resolved"
                                \/ after.client_location = NoLoc
                                      /\ after.geo_status = "failed"
                           ELSE /\ after.client_location = NoLoc
                                /\ after.geo_status
                                     = IF ~domestic /\ before.country # "none"
                                       THEN "abroad" ELSE "failed"
        /\ (/\ pc[w] \in {"analyze", "office", "fallback_flush", "filter",
                          "rr_select", "rr_flush", "save", "load"}
            /\ tx[w].status = "active"
            /\ tx'[w].status = "active")
            => tx'[w].tickets = tx[w].tickets]_vars

\* The tickets without an address, from abroad and with the country alone
\* are stored as failed, abroad and failed, and the geocoder has found the
\* domestic address of the execution under way.
C35_Witness ==
    /\ tickets[1].geo_status = "failed"
    /\ tickets[2].geo_status = "abroad"
    /\ tickets[4].geo_status = "failed"
    /\ \E w \in Workers :
          /\ pc[w] = "office"
          /\ frame[w].geocoded
          /\ frame[w].ticket.geo_status = "resolved"
          /\ frame[w].ticket.client_location # NoLoc



\* The sentiment the classifier gave before the post-adjustment: the one of
\* the LLM answer (Neutral when it names none of the enumeration), or the
\* one of the rule-based classifier.
ClassifierSentiment(w) ==
    IF results[w][Len(results[w])].llm_model = MODEL
    THEN IF frame[w].raw.sentiment \in Sentiment THEN frame[w].raw.sentiment
         ELSE "Neutral"
    ELSE detect_sentiment_markers(frame[w].description)

C37_HeuristicDetectsFraud ==
    \A w \in Workers :
        (/\ AnalysisReturned(w)
         /\ results[w][Len(results[w])].llm_model = "heuristic-fallback"
         /\ has_any_phrase(frame[w].description, FRAUD_MARKERS))
            => LET result == heuristic_fallback(frame[w].description)
               IN  /\ result.ticket_type = "Fraud"
                   /\ result.sentiment = "Negative"
                   /\ result.priority_score = 9



\* The Assignments worker w sees (committed and flushed by w) are all of
\* the queue of scenario S6 and none is a fallback.
OnlyS6Queue(w) ==
    LET rows == assignments \o tx[w].assignments
        anRows == analytics \o tx[w].analytics
    IN  \A i \in DOMAIN rows :
            /\ ~rows[i].fallback_used
            /\ KeyOfAssignment(rows[i], anRows) = S6Queue

\* C38: with two eligible managers in the office of one queue, any four
\* tickets of that queue assigned one after another, with no other
\* Assignment in between, give each of the two managers at least one of the
\* four Assignments, whatever the loads and the counter they start from.
C38_FourTicketsReachBothManagers ==
    \A w \in Workers :
        OnlyS6Queue(w)
            => LET rows == assignments \o tx[w].assignments
               IN  \A i \in DOMAIN rows :
                     i + 3 <= Len(rows)
                        => \A id \in DOMAIN managers :
                              \E j \in i..(i + 3) : rows[j].manager_id = id

\* Four tickets of the queue are assigned and committed, three of them to
\* the same manager.
C38_Witness ==
    /\ Len(assignments) = 4
    /\ OnlyS6Queue(1)
    /\ pc[1] = "idle"
    /\ \E id \in DOMAIN managers : AssignedTo(assignments, id) = 3


\* The load manager id had before the Assignments worker w sees
StartLoad(w, id) ==
    VisibleManager(w, id).current_load
        - AssignedTo(assignments \o tx[w].assignments, id)

\* C40: with two eligible managers that start at equal loads and tickets of
\* one queue processed one after another, no other queue assigning to them,
\* the loads of the two managers never differ by more than 2, whether the
\* counter of the queue starts even or odd.
C40_LoadsDifferByAtMostTwo ==
    \A w \in Workers :
        (/\ OnlyS6Queue(w)
         /\ pc[w] # "load"
         /\ StartLoad(w, 1) = StartLoad(w, 2))
            => LET l1 == VisibleManager(w, 1).current_load
                   l2 == VisibleManager(w, 2).current_load
               IN  l1 - l2 <= 2 /\ l2 - l1 <= 2

\* From equal loads the committed loads have come to differ by exactly 2,
\* and a later ticket of the queue has brought them back to differ by 1.
C40_Witness ==
    /\ OnlyS6Queue(1)
    /\ pc[1] = "idle"
    /\ StartLoad(1, 1) = StartLoad(1, 2)
    /\ Len(assignments) = 3
    /\ managers[1].current_load - managers[2].current_load = 1
    /\ assignments[1].manager_id = 1
    /\ assignments[2].manager_id = 1



NextPolicies ==
    \/ DetermineRequiredSkills(PolicyCaller)
    \/ PickLoopStart(PolicyCaller)
    \/ PickLoopStep(PolicyCaller)
    \/ SelectNearestOffice(PolicyCaller)
    \/ SelectFallbackOffice(PolicyCaller)
    \/ BuildAddressString(PolicyCaller)
    \/ PickNextCall(PolicyCaller)

SpecPolicies == InitPolicies /\ [][NextPolicies]_vars

=============================================================================
